---------------------------- MODULE Spec2Model ----------------------------
(***************************************************************************)
(* Content transformation pipeline of mylms-rewrite:                       *)
(*   - backend/src/content/typst.rs   (html_to_typst and its stages)       *)
(*   - backend/src/content/cleaner.rs (clean_html_with_token)              *)
(*                                                                         *)
(* A text is a sequence of tokens.  A token is a string standing for       *)
(* itself: one character ("$", "_", "x", "\n"), one complete tag           *)
(* ("<h1>", "</h1>"), one entity name ("lt;", after the token "&") or one  *)
(* placeholder sentinel ("___TYPST_H").  The regular expressions and the   *)
(* str methods of the source are evaluated on the token sequence exactly   *)
(* as the regex crate evaluates them on the characters (leftmost match,    *)
(* lazy quantifier, non-overlapping replace_all); the alphabet is chosen   *)
(* so that no pattern of the source can match across the inside of a       *)
(* token.                                                                  *)
(***************************************************************************)
EXTENDS Integers, Sequences, FiniteSets, TLC

VARIABLES
    html,         \* html_to_typst: the argument `html`
    stage,        \* html_to_typst: the statement the call stands before
    result,       \* html_to_typst: the local `result`
    math_blocks,  \* html_to_typst: the local `math_blocks`
    page,         \* clean_html_with_token: the argument `html`
    token,        \* clean_html_with_token: the argument `token`,
                  \*   <<>> for None and <<t>> for Some(t)
    pass,         \* clean_html_with_token: the statement the call stands before
    output,       \* clean_html_with_token: the local `output`
    store,        \* MemoryCache: the map behind the field `store`
    now,          \* the reading of Instant::now()
    pending,      \* MemoryCache::get: per thread, the call that has dropped
                  \*   the read guard and stands before self.delete(key)
    last,         \* the last call on the cache that returned
    urls,         \* batch_prefetch: request.urls
    units,        \* batch_prefetch: per future of `futures`, the await it
                  \*   stands at
    items,        \* batch_prefetch: per future, the item it returned
    permits,      \* batch_prefetch: the permits `semaphore` has left
    response,     \* batch_prefetch: the response, once returned
    title,        \* generate_typst_document: the argument `title`
    sections,     \* generate_typst_document: the argument `sections`
    doc,          \* generate_typst_document: the local `doc`
    next_section, \* generate_typst_document: the statement the call stands
                  \*   before, 0 for the template, k for section k
    requests,     \* get_activity_content: the requests received, in order,
                  \*   each with its response once it is sent
    lock,         \* MemoryCache: the RwLock around `store`
    point         \* MemoryCache: per thread, the point of its call

typstVars == <<html, stage, result, math_blocks>>
cleanerVars == <<page, token, pass, output>>
cacheVars == <<store, now, pending, last>>
batchVars == <<urls, units, items, permits, response>>
serverVars == <<cacheVars, batchVars>>
documentVars == <<title, sections, doc, next_section>>
lockVars == <<lock, point>>
extraVars == <<documentVars, requests, lockVars>>
vars == <<html, stage, result, math_blocks, page, token, pass, output,
          store, now, pending, last, urls, units, items, permits, response,
          title, sections, doc, next_section, requests, lock, point>>

(***************************************************************************)
(* Bounds of the model                                                     *)
(***************************************************************************)
MaxLen == 4

(***************************************************************************)
(* cache/memory.rs: the values of MemoryCache                              *)
(***************************************************************************)
MaxTime == 2

None == <<>>
Some(x) == <<x>>

Threads == {"t1", "t2"}
Keys == {"key1", "key2"}
Values == {"value1", "value2"}
Ttls == {None, Some(1)}

CacheEntry(value, expires_at) == [value |-> value, expires_at |-> expires_at]

\* MemoryCache::new: an empty map
new == [k \in {} |-> CacheEntry("", None)]

insert(map, key, entry) ==
    [k \in DOMAIN map \cup {key} |-> IF k = key THEN entry ELSE map[k]]

remove(map, key) == [k \in DOMAIN map \ {key} |-> map[k]]

NoCall == [thread |-> "", op |-> "new", key |-> "", ret |-> None]

\* a cache nobody has used yet
CacheNew ==
    /\ store = new
    /\ now = 0
    /\ pending = [t \in Threads |-> None]
    /\ last = NoCall

\* no batch_prefetch request is being served
BatchIdle ==
    /\ urls = <<>>
    /\ units = <<>>
    /\ items = <<>>
    /\ permits = 0
    /\ response = None

\* no document is being generated
DocumentIdle ==
    /\ title = <<>>
    /\ sections = <<>>
    /\ doc = <<>>
    /\ next_section = 0

\* no request has been received
ServeIdle == requests = <<>>

\* nobody holds or awaits the lock
LockIdle ==
    /\ lock = [readers |-> {}, writer |-> None]
    /\ point = [t \in Threads |->
                   [at |-> "idle", op |-> "", key |-> "", value |-> "", ttl |-> None]]

ExtraIdle == DocumentIdle /\ ServeIdle /\ LockIdle

ServerIdle == CacheNew /\ BatchIdle /\ ExtraIdle

(***************************************************************************)
(* typst.rs: constants                                                     *)
(***************************************************************************)
MATH_START == "___TYPST_MATH_"
MATH_END == "_TYPST_MATH___"
HEADING_START == "___TYPST_H"
HEADING_END == "_TYPST_HEADING___"

\* placeholder.replace("_", "\\_") of each sentinel, and what the escaping
\* stage makes of a sentinel it escapes character by character
ESC_MATH_START == "\\_\\_\\_TYPST\\_MATH\\_"
ESC_MATH_END == "\\_TYPST\\_MATH\\_\\_\\_"
ESC_HEADING_START == "\\_\\_\\_TYPST\\_H"
ESC_HEADING_END == "\\_TYPST\\_HEADING\\_\\_\\_"

Sentinels == {MATH_START, MATH_END, HEADING_START, HEADING_END}
EscSentinels == {ESC_MATH_START, ESC_MATH_END, ESC_HEADING_START, ESC_HEADING_END}

EscapeUnderscores(tok) ==
    CASE tok = MATH_START -> ESC_MATH_START
      [] tok = MATH_END -> ESC_MATH_END
      [] tok = HEADING_START -> ESC_HEADING_START
      [] tok = HEADING_END -> ESC_HEADING_END
      [] OTHER -> tok

UnescapeUnderscores(tok) ==
    CASE tok = ESC_MATH_START -> MATH_START
      [] tok = ESC_MATH_END -> MATH_END
      [] tok = ESC_HEADING_START -> HEADING_START
      [] tok = ESC_HEADING_END -> HEADING_END
      [] OTHER -> tok

(***************************************************************************)
(* Characters and tags                                                     *)
(***************************************************************************)
\* the characters escape_typst_content escapes
MetaChars == {"\\", "#", "$", "*", "_", "@", "[", "]", "<", ">"}

\* the characters of the model that are not ASCII, named by their code point
E_ACUTE == "U+00E9"
SQRT_SIGN == "U+221A"
NBSP == "U+00A0"

\* char::is_whitespace
Whitespace == {" ", "\n", NBSP}
Numeric == {"0", "1", "2", "3", "4", "5", "6", "7", "8", "9"}

HeadingOpen(level) == "<h" \o ToString(level) \o ">"
HeadingClose(level) == "</h" \o ToString(level) \o ">"

\* a token that is one complete tag: it starts with '<', ends with '>' and
\* holds no other '<' or '>'
Tags == {HeadingOpen(l) : l \in 1..6} \cup {HeadingClose(l) : l \in 1..6}
        \cup {"<b>", "</b>", "<p>", "</p>", "<br>", "<li>", "</li>",
              "<ul>", "</ul>", "<ol>", "</ol>"}

\* char::len_utf8
ByteLen(tok) ==
    CASE tok = E_ACUTE -> 2
      [] tok = NBSP -> 2
      [] tok = SQRT_SIGN -> 3
      [] OTHER -> 1

(***************************************************************************)
(* str and regex primitives on token sequences                             *)
(***************************************************************************)
Min(S) == CHOOSE x \in S : \A y \in S : x <= y

\* s[i..].starts_with(pat)
StartsWithAt(s, i, pat) ==
    /\ i >= 1
    /\ i + Len(pat) - 1 <= Len(s)
    /\ \A k \in 1..Len(pat) : s[i + k - 1] = pat[k]

\* position of the first occurrence of pat in s at or after i, 0 if none
FindFrom(s, i, pat) ==
    LET hits == {j \in i..Len(s) : StartsWithAt(s, j, pat)}
    IN  IF hits = {} THEN 0 ELSE Min(hits)

Contains(s, pat) == FindFrom(s, 1, pat) # 0

\* str::replace(from, to): every non-overlapping occurrence, left to right
RECURSIVE ReplaceFrom(_, _, _, _)
ReplaceFrom(s, i, from, to) ==
    IF i > Len(s) THEN <<>>
    ELSE IF StartsWithAt(s, i, from)
         THEN to \o ReplaceFrom(s, i + Len(from), from, to)
         ELSE <<s[i]>> \o ReplaceFrom(s, i + 1, from, to)

Replace(s, from, to) == ReplaceFrom(s, 1, from, to)

\* the concatenation of the members of a sequence of sequences
RECURSIVE Concat(_)
Concat(ss) == IF ss = <<>> THEN <<>> ELSE Head(ss) \o Concat(Tail(ss))

\* str::trim()
Trim(s) ==
    LET keep == {i \in 1..Len(s) : s[i] \notin Whitespace}
    IN  IF keep = {} THEN <<>>
        ELSE SubSeq(s, Min(keep), CHOOSE i \in keep : \A j \in keep : j <= i)

\* the end of a lazy group: the first position at or after i + min where
\* `close` starts, with no token of `forbid` in between; 0 if there is none
LazyEnd(s, i, close, forbid, min) ==
    LET cand == {j \in (i + min)..(Len(s) + 1) :
                    /\ StartsWithAt(s, j, close)
                    /\ \A k \in i..(j - 1) : s[k] \notin forbid}
    IN  IF cand = {} THEN 0 ELSE Min(cand)


(***************************************************************************)
(* typst.rs: html_to_typst, lines 15-21: entity decoding                   *)
(***************************************************************************)
DecodeEntities(s) ==
    LET r1 == Replace(s, <<"&", "amp;">>, <<"&">>)
        r2 == Replace(r1, <<"&", "lt;">>, <<"<">>)
        r3 == Replace(r2, <<"&", "gt;">>, <<">">>)
        r4 == Replace(r3, <<"&", "quot;">>, <<"\"">>)
        r5 == Replace(r4, <<"&", "nbsp;">>, <<" ">>)
    IN  Replace(r5, <<"&", "#39;">>, <<"'">>)

(***************************************************************************)
(* typst.rs: strip_html_tags                                               *)
(***************************************************************************)
\* the first token after i that holds a '>': a literal '>' or a tag
NextGt(s, i) ==
    LET hits == {j \in (i + 1)..Len(s) : s[j] = ">" \/ s[j] \in Tags}
    IN  IF hits = {} THEN 0 ELSE Min(hits)

\* Regex <[^>]+> replaced by "": a tag token is a match by itself; a literal
\* '<' matches up to the next '>' when at least one character lies between
RECURSIVE RemoveAnyTag(_, _)
RemoveAnyTag(s, i) ==
    IF i > Len(s) THEN <<>>
    ELSE IF s[i] \in Tags THEN RemoveAnyTag(s, i + 1)
    ELSE IF s[i] = "<"
         THEN LET j == NextGt(s, i)
              IN  IF j = 0 \/ (j = i + 1 /\ s[j] = ">")
                  THEN <<s[i]>> \o RemoveAnyTag(s, i + 1)
                  ELSE RemoveAnyTag(s, j + 1)
    ELSE <<s[i]>> \o RemoveAnyTag(s, i + 1)

strip_html_tags(s) ==
    LET r1 == Replace(s, <<"<br>">>, <<"\n">>)
        r2 == Replace(r1, <<"</p>">>, <<"\n", "\n">>)
        r3 == Replace(r2, <<"<p>">>, <<"\n">>)
    IN  RemoveAnyTag(r3, 1)

(***************************************************************************)
(* typst.rs: extract_math                                                  *)
(***************************************************************************)
Placeholder(idx) == <<MATH_START, ToString(idx), MATH_END>>

\* content.trim().chars().all(|c| c.is_numeric() || c == '.' || c == ',')
LooksLikeCurrency(content) ==
    \A k \in DOMAIN Trim(content) :
        Trim(content)[k] \in Numeric \cup {".", ","}

\* the four patterns of extract_math, in the order they run
MathPatterns ==
    << [open |-> <<"$", "$">>, close |-> <<"$", "$">>, forbid |-> {},
        min |-> 1, display |-> TRUE, currency |-> FALSE],
       [open |-> <<"\\", "[">>, close |-> <<"\\", "]">>, forbid |-> {},
        min |-> 0, display |-> TRUE, currency |-> FALSE],
       [open |-> <<"\\", "(">>, close |-> <<"\\", ")">>, forbid |-> {"\n"},
        min |-> 1, display |-> FALSE, currency |-> FALSE],
       [open |-> <<"$">>, close |-> <<"$">>, forbid |-> {"$", "\n"},
        min |-> 1, display |-> FALSE, currency |-> TRUE] >>

\* one re.replace_all of extract_math, from position i on
RECURSIVE MathPass(_, _, _, _)
MathPass(s, i, blocks, p) ==
    IF i > Len(s) THEN [text |-> <<>>, blocks |-> blocks]
    ELSE
      LET e == IF StartsWithAt(s, i, p.open)
               THEN LazyEnd(s, i + Len(p.open), p.close, p.forbid, p.min)
               ELSE 0
      IN  IF e = 0
          THEN LET r == MathPass(s, i + 1, blocks, p)
               IN  [text |-> <<s[i]>> \o r.text, blocks |-> r.blocks]
          ELSE
            LET content == SubSeq(s, i + Len(p.open), e - 1)
                next == e + Len(p.close)
            IN  IF p.currency /\ LooksLikeCurrency(content)
                THEN LET r == MathPass(s, next, blocks, p)
                     IN  [text |-> SubSeq(s, i, next - 1) \o r.text,
                          blocks |-> r.blocks]
                ELSE LET r == MathPass(s, next,
                                  Append(blocks, [display |-> p.display,
                                                  latex |-> content]), p)
                     IN  [text |-> Placeholder(Len(blocks)) \o r.text,
                          blocks |-> r.blocks]

extract_math(s) ==
    LET a == MathPass(s, 1, <<>>, MathPatterns[1])
        b == MathPass(a.text, 1, a.blocks, MathPatterns[2])
        c == MathPass(b.text, 1, b.blocks, MathPatterns[3])
    IN  MathPass(c.text, 1, c.blocks, MathPatterns[4])

(***************************************************************************)
(* typst.rs: extract_headings                                              *)
(***************************************************************************)
\* content.trim().replace("\n", " ").replace("  ", " ")
CleanContent(content) ==
    Replace(Replace(Trim(strip_html_tags(content)), <<"\n">>, <<" ">>),
            <<" ", " ">>, <<" ">>)

HeadingMarker(level, content) ==
    <<"\n", "\n", HEADING_START, ToString(level)>> \o CleanContent(content)
        \o <<HEADING_END, "\n", "\n">>

\* re.replace_all of (?si)<hN[^>]*>(.*?)</hN> for one level
RECURSIVE HeadingPass(_, _, _)
HeadingPass(s, i, level) ==
    IF i > Len(s) THEN <<>>
    ELSE
      LET e == IF s[i] = HeadingOpen(level)
               THEN LazyEnd(s, i + 1, <<HeadingClose(level)>>, {}, 0)
               ELSE 0
      IN  IF e = 0 THEN <<s[i]>> \o HeadingPass(s, i + 1, level)
          ELSE HeadingMarker(level, SubSeq(s, i + 1, e - 1))
                  \o HeadingPass(s, e + 1, level)

extract_headings(s) ==
    LET r1 == HeadingPass(s, 1, 1)
        r2 == HeadingPass(r1, 1, 2)
        r3 == HeadingPass(r2, 1, 3)
    IN  HeadingPass(r3, 1, 4)

(***************************************************************************)
(* typst.rs: convert_lists                                                 *)
(***************************************************************************)
RECURSIVE ListItemPass(_, _)
ListItemPass(s, i) ==
    IF i > Len(s) THEN <<>>
    ELSE
      LET e == IF s[i] = "<li>" THEN LazyEnd(s, i + 1, <<"</li>">>, {}, 0)
               ELSE 0
      IN  IF e = 0 THEN <<s[i]>> \o ListItemPass(s, i + 1)
          ELSE <<"\n", "-", " ">> \o Trim(strip_html_tags(SubSeq(s, i + 1, e - 1)))
                  \o ListItemPass(s, e + 1)

convert_lists(s) ==
    LET r1 == ListItemPass(s, 1)
        r2 == Replace(Replace(r1, <<"<ul>">>, <<"\n">>), <<"</ul>">>, <<"\n">>)
    IN  Replace(Replace(r2, <<"<ol>">>, <<"\n">>), <<"</ol>">>, <<"\n">>)

(***************************************************************************)
(* typst.rs: escape_typst_content                                          *)
(***************************************************************************)
\* the characters of a sentinel
CharsOf(tok) ==
    CASE tok = MATH_START ->
           <<"_", "_", "_", "T", "Y", "P", "S", "T", "_", "M", "A", "T", "H", "_">>
      [] tok = MATH_END ->
           <<"_", "T", "Y", "P", "S", "T", "_", "M", "A", "T", "H", "_", "_", "_">>
      [] tok = HEADING_START ->
           <<"_", "_", "_", "T", "Y", "P", "S", "T", "_", "H">>
      [] tok = HEADING_END ->
           <<"_", "T", "Y", "P", "S", "T", "_", "H", "E", "A", "D", "I", "N", "G",
             "_", "_", "_">>
      [] OTHER -> <<tok>>

RECURSIVE ExtraBytes(_)
\* placeholder.len() minus the number of chars of the placeholder
ExtraBytes(s) ==
    IF s = <<>> THEN 0 ELSE (ByteLen(Head(s)) - 1) + ExtraBytes(Tail(s))

RECURSIVE SkipChars(_, _)
\* what is left of s after n more characters: `i` counts chars, and
\* `i += placeholder.len()` adds bytes
SkipChars(s, n) ==
    IF n = 0 \/ s = <<>> THEN s
    ELSE LET c == CharsOf(Head(s))
         IN  IF Len(c) <= n THEN SkipChars(Tail(s), n - Len(c))
             ELSE SubSeq(c, n + 1, Len(c)) \o Tail(s)

\* the match arm of the loop: one character outside a copied span
EscapeChar(tok) ==
    IF tok \in MetaChars THEN <<"\\", tok>> ELSE <<EscapeUnderscores(tok)>>

\* the end of the placeholder span that starts at the head of s, 0 if the
\* head of s starts none
SpanEnd(s) ==
    LET m == IF Head(s) = MATH_START THEN FindFrom(s, 1, <<MATH_END>>) ELSE 0
    IN  IF m # 0 THEN m
        ELSE IF Head(s) = HEADING_START THEN FindFrom(s, 1, <<HEADING_END>>)
        ELSE 0

RECURSIVE escape_typst_content(_)
escape_typst_content(s) ==
    IF s = <<>> THEN <<>>
    ELSE LET e == SpanEnd(s)
         IN  IF e # 0
             THEN SubSeq(s, 1, e)
                    \o escape_typst_content(
                         SkipChars(SubSeq(s, e + 1, Len(s)),
                                   ExtraBytes(SubSeq(s, 1, e))))
             ELSE EscapeChar(Head(s)) \o escape_typst_content(Tail(s))

(***************************************************************************)
(* typst.rs: unescape_typst_content                                        *)
(***************************************************************************)
UnescapeOne(s, c) == Replace(s, <<"\\", c>>, <<c>>)

unescape_typst_content(s) ==
    LET r1 == UnescapeOne(UnescapeOne(UnescapeOne(s, "#"), "$"), "*")
        r2 == [k \in DOMAIN r1 |-> UnescapeUnderscores(r1[k])]
        r3 == UnescapeOne(UnescapeOne(UnescapeOne(r2, "_"), "@"), "[")
        r4 == UnescapeOne(UnescapeOne(UnescapeOne(r3, "]"), "<"), ">")
    IN  UnescapeOne(r4, "\\")

(***************************************************************************)
(* typst.rs: restore_headings                                              *)
(***************************************************************************)
Equals(level) == [k \in 1..level |-> "="]

\* re.replace_all of START level (.*?) END for one level and one spelling
RECURSIVE RestorePass(_, _, _, _, _)
RestorePass(s, i, level, start, end) ==
    IF i > Len(s) THEN <<>>
    ELSE
      LET e == IF StartsWithAt(s, i, <<start, ToString(level)>>)
               THEN LazyEnd(s, i + 2, <<end>>, {"\n"}, 0)
               ELSE 0
      IN  IF e = 0 THEN <<s[i]>> \o RestorePass(s, i + 1, level, start, end)
          ELSE Equals(level) \o <<" ">>
                  \o Trim(unescape_typst_content(SubSeq(s, i + 2, e - 1)))
                  \o RestorePass(s, e + 1, level, start, end)

RestoreLevel(s, level) ==
    RestorePass(RestorePass(s, 1, level, HEADING_START, HEADING_END),
                1, level, ESC_HEADING_START, ESC_HEADING_END)

restore_headings(s) ==
    RestoreLevel(RestoreLevel(RestoreLevel(RestoreLevel(s, 1), 2), 3), 4)

(***************************************************************************)
(* typst.rs: latex_to_typst_math and restore_math                          *)
(***************************************************************************)
Count(s, tok) == Cardinality({k \in DOMAIN s : s[k] = tok})

\* tex2typst_rs::tex2typst: Err on unbalanced braces; \pi becomes pi; a text
\* without commands is returned as it is
Tex2Typst(latex) ==
    [ok |-> Count(latex, "{") = Count(latex, "}"),
     out |-> Replace(latex, <<"\\", "p", "i">>, <<"p", "i">>)]

latex_to_typst_math(latex) ==
    LET processed == Replace(latex, <<SQRT_SIGN>>, <<"\\", "s", "q", "r", "t", " ">>)
        r == Tex2Typst(processed)
    IN  IF r.ok THEN r.out ELSE latex

MathReplacement(block) ==
    IF block.display
    THEN <<"\n", "$", " ">> \o latex_to_typst_math(block.latex) \o <<" ", "$", "\n">>
    ELSE <<"$">> \o latex_to_typst_math(block.latex) \o <<"$">>

EscapedPlaceholder(idx) == <<ESC_MATH_START, ToString(idx), ESC_MATH_END>>

\* the loop of restore_math from index idx on
RECURSIVE RestoreMathFrom(_, _, _)
RestoreMathFrom(s, blocks, idx) ==
    IF idx >= Len(blocks) THEN s
    ELSE LET rep == MathReplacement(blocks[idx + 1])
             r1 == Replace(s, EscapedPlaceholder(idx), rep)
             r2 == Replace(r1, Placeholder(idx), rep)
         IN  RestoreMathFrom(r2, blocks, idx + 1)

restore_math(s, blocks) == RestoreMathFrom(s, blocks, 0)

(***************************************************************************)
(* typst.rs: clean_whitespace                                              *)
(***************************************************************************)
\* the length of the run of tok that starts at i
RECURSIVE RunLen(_, _, _)
RunLen(s, i, tok) ==
    IF i > Len(s) \/ s[i] # tok THEN 0 ELSE 1 + RunLen(s, i + 1, tok)

\* Regex tok{min,} replaced by `to`
RECURSIVE CollapseRuns(_, _, _, _, _)
CollapseRuns(s, i, tok, min, to) ==
    IF i > Len(s) THEN <<>>
    ELSE LET n == RunLen(s, i, tok)
         IN  IF n >= min THEN to \o CollapseRuns(s, i + n, tok, min, to)
             ELSE <<s[i]>> \o CollapseRuns(s, i + 1, tok, min, to)

\* str::lines()
RECURSIVE Lines(_)
Lines(s) ==
    IF s = <<>> THEN <<>>
    ELSE LET n == FindFrom(s, 1, <<"\n">>)
         IN  IF n = 0 THEN <<s>>
             ELSE <<SubSeq(s, 1, n - 1)>> \o Lines(SubSeq(s, n + 1, Len(s)))

\* .map(|line| line.trim()).collect::<Vec<_>>().join("\n")
RECURSIVE JoinTrimmed(_)
JoinTrimmed(ls) ==
    IF ls = <<>> THEN <<>>
    ELSE IF Len(ls) = 1 THEN Trim(ls[1])
    ELSE Trim(ls[1]) \o <<"\n">> \o JoinTrimmed(Tail(ls))

clean_whitespace(s) ==
    LET r1 == CollapseRuns(s, 1, " ", 2, <<" ">>)
        r2 == CollapseRuns(r1, 1, "\n", 3, <<"\n", "\n">>)
    IN  Trim(JoinTrimmed(Lines(r2)))

(***************************************************************************)
(* typst.rs: html_to_typst as a state machine, one action per statement    *)
(***************************************************************************)
SeqsUpTo(S, n) == UNION {[1..k -> S] : k \in 0..n}

\* the tokens the enumerated inputs are made of
TypstAlphabet ==
    {"<h1>", "</h1>", "<h2>", "</h2>", "&", "lt;", "gt;", "$", "x", "5", "_"}

\* documents longer than MaxLen
TypstSamples ==
    { <<"P", "r", "i", "c", "e", ":", " ", "$", "5", "0">>,
      <<"P", "r", "i", "c", "e", ":", " ", "$", "5", "0", " ", "o", "r", " ",
        "$", "6", "0">>,
      <<"$", "x", "+", "y", "$">>,
      <<"$", "x", " ", "+", " ", "y", "$">>,
      <<"$", "$", "a", "$", "$", " ", "\\", "[", "b", "\\", "]", " ",
        "\\", "(", "c", "\\", ")", " ", "$", "d", "$">>,
      <<"\\", "(", "c", "\\", ")", " ", "$", "d", "$", " ",
        "\\", "[", "b", "\\", "]", " ", "$", "$", "a", "$", "$">>,
      <<"$", "\\", "p", "i", "$">>,
      <<"<h1>", "a", "_", "b", " ", "#", "1", "</h1>", " ", "c", "_", "d">>,
      <<"<h1>", "a", " ", "&", "lt;", " ", "b", "</h1>", "<b>", "c", "</b>">>,
      <<"<h1>", "&", "lt;", "</h1>", "&", "gt;", "x", "_", "y", "<h1>", "c",
        "</h1>">>,
      <<"<h2>", "a", "<h1>", "b", "</h1>", "c", "</h2>">>,
      <<"<h1>", "a", "</h1>", "<h1>", "b", "</h1>">>,
      <<"<h1>", "$", "x", "+", "y", "$", "</h1>">>,
      <<"<ul>", "<li>", "a", "</li>", "<li>", "<b>", "b", "</b>", "</li>", "</ul>">>,
      <<"<p>", "a", "<br>", "b", "</p>", "<p>", "c", "</p>">>,
      <<"<h1>", E_ACUTE, E_ACUTE, E_ACUTE, "</h1>", "x", "_", "y">>,
      <<"<h1>", E_ACUTE, E_ACUTE, E_ACUTE, "</h1>", "_", "y">>,
      <<"a", " ", "&", "lt;", " ", "$", "x", "+", "y", "$", " ", "&", "gt;", " ",
        "b">>,
      <<"<h3>", "<h2>", "a", "<h1>", "b", "</h1>", "c", "_", "d", "</h2>", " ",
        "<h2>", "e", "</h2>", "</h3>">>,
      <<"a", " ", " ", "b", "\n", "\n", "\n", "\n", "c", " ", "\n">>,
      <<" ", "a", "\n", " ", "\n", "b", " ">>,
      <<"a", "\n", " ", "\n", " ", "\n", "b">>,
      <<"$", "x", "{", "$">>,
      <<"a", " ", "$", "x", "{", "$", " ", "b", " ", "$", "\\", "p", "i", "$">>,
      <<"$", "\\", "p", "i", "$", " ", "\\", "[", "}", "y", "\\", "]", " ", "c">>,
      <<"a", " ", "&", "lt;", " ", "$", "x", "{", "$", " ", "&", "gt;", " ", "b">> }

TypstInputs == SeqsUpTo(TypstAlphabet, MaxLen) \cup TypstSamples

TypstInit ==
    /\ html \in TypstInputs
    /\ stage = "decode"
    /\ result = html
    /\ math_blocks = <<>>
    /\ page = <<>> /\ token = <<>> /\ pass = "idle" /\ output = <<>>
    /\ ServerIdle

Decode ==
    /\ stage = "decode"
    /\ result' = DecodeEntities(result)
    /\ stage' = "extract_math"
    /\ UNCHANGED <<html, math_blocks, cleanerVars, serverVars, extraVars>>

ExtractMath ==
    /\ stage = "extract_math"
    /\ result' = extract_math(result).text
    /\ math_blocks' = extract_math(result).blocks
    /\ stage' = "extract_headings"
    /\ UNCHANGED <<html, cleanerVars, serverVars, extraVars>>

ExtractHeadings ==
    /\ stage = "extract_headings"
    /\ result' = extract_headings(result)
    /\ stage' = "convert_lists"
    /\ UNCHANGED <<html, math_blocks, cleanerVars, serverVars, extraVars>>

ConvertLists ==
    /\ stage = "convert_lists"
    /\ result' = convert_lists(result)
    /\ stage' = "strip_html_tags"
    /\ UNCHANGED <<html, math_blocks, cleanerVars, serverVars, extraVars>>

StripTags ==
    /\ stage = "strip_html_tags"
    /\ result' = strip_html_tags(result)
    /\ stage' = "escape"
    /\ UNCHANGED <<html, math_blocks, cleanerVars, serverVars, extraVars>>

Escape ==
    /\ stage = "escape"
    /\ result' = escape_typst_content(result)
    /\ stage' = "restore_headings"
    /\ UNCHANGED <<html, math_blocks, cleanerVars, serverVars, extraVars>>

RestoreHeadings ==
    /\ stage = "restore_headings"
    /\ result' = restore_headings(result)
    /\ stage' = "restore_math"
    /\ UNCHANGED <<html, math_blocks, cleanerVars, serverVars, extraVars>>

RestoreMath ==
    /\ stage = "restore_math"
    /\ result' = restore_math(result, math_blocks)
    /\ stage' = "clean_whitespace"
    /\ UNCHANGED <<html, math_blocks, cleanerVars, serverVars, extraVars>>

CleanWhitespace ==
    /\ stage = "clean_whitespace"
    /\ result' = clean_whitespace(result)
    /\ stage' = "done"
    /\ UNCHANGED <<html, math_blocks, cleanerVars, serverVars, extraVars>>

TypstNext ==
    \/ Decode
    \/ ExtractMath
    \/ ExtractHeadings
    \/ ConvertLists
    \/ StripTags
    \/ Escape
    \/ RestoreHeadings
    \/ RestoreMath
    \/ CleanWhitespace

SpecTypst == TypstInit /\ [][TypstNext]_vars

\* the value html_to_typst returns for the input s
html_to_typst(s) ==
    LET m == extract_math(DecodeEntities(s))
        e == escape_typst_content(
                 strip_html_tags(convert_lists(extract_headings(m.text))))
    IN  clean_whitespace(restore_math(restore_headings(e), m.blocks))

(***************************************************************************)
(* typst.rs: generate_typst_document                                       *)
(*                                                                         *)
(* The fixed text of the template stands as three tokens; the title and    *)
(* the section names are sequences of characters, the section bodies are   *)
(* Typst text already produced by html_to_typst.                           *)
(***************************************************************************)

\* the template up to the first {}, between the two {}, and after the second
TEMPLATE_HEAD == "#set document(title: \""
TEMPLATE_TITLE_PAGE == "\")...#text(size: 28pt, weight: \"bold\")[ "
TEMPLATE_TAIL == " ]...#pagebreak() // Content "

\* title.replace("\\", "\\\\").replace("\"", "\\\"")
safe_title(t) == Replace(Replace(t, <<"\\">>, <<"\\", "\\">>), <<"\"">>, <<"\\", "\"">>)

\* the five replace calls on section_name
safe_section(section_name) ==
    LET r1 == Replace(section_name, <<"\\">>, <<"\\", "\\">>)
        r2 == Replace(r1, <<"#">>, <<"\\", "#">>)
        r3 == Replace(r2, <<"$">>, <<"\\", "$">>)
        r4 == Replace(r3, <<"*">>, <<"\\", "*">>)
    IN  Replace(r4, <<"_">>, <<"\\", "_">>)

\* format!("\n\n= {}\n\n", s)
HeadingLine(s) == <<"\n", "\n", "=", " ">> \o s \o <<"\n", "\n">>

\* a member of `sections`
Section(section_name, content) == [section_name |-> section_name, content |-> content]

\* the sections beyond these bounds are not enumerated
MaxNameLen == 2
MaxSections == 2

\* the characters of the enumerated titles and section names
NameAlphabet == MetaChars \cup {"a"}

Titles == {<<>>, <<"a">>, <<"\"">>, <<"a", "\\">>}

Bodies == {<<>>, <<"x">>, <<"$", "x", "$">>}

\* the sections with a name of at most n characters
SectionsOf(n) == {Section(name, b) : name \in SeqsUpTo(NameAlphabet, n), b \in Bodies}

\* one section with a name of up to MaxNameLen characters, or up to
\* MaxSections sections with shorter names
SectionLists ==
    {<<>>}
    \cup {<<sec>> : sec \in SectionsOf(MaxNameLen)}
    \cup UNION {[1..k -> SectionsOf(MaxNameLen - 2) \cup
                            {Section(<<c>>, <<"x">>) : c \in {"a", "@", "#"}}] :
                   k \in 2..MaxSections}

\* the call generate_typst_document(title, sections) is about to start
DocumentInit ==
    /\ title \in Titles
    /\ sections \in SectionLists
    /\ doc = <<>>
    /\ next_section = 0
    /\ html = <<>> /\ stage = "done" /\ result = <<>> /\ math_blocks = <<>>
    /\ page = <<>> /\ token = None /\ pass = "done" /\ output = <<>>
    /\ CacheNew
    /\ BatchIdle
    /\ ServeIdle
    /\ LockIdle

\* the push_str of the template, with the title in its two places
PushTemplate ==
    /\ next_section = 0
    /\ doc = <<>>
    /\ doc' = <<TEMPLATE_HEAD>> \o safe_title(title) \o <<TEMPLATE_TITLE_PAGE>>
                  \o safe_title(title) \o <<TEMPLATE_TAIL>>
    /\ next_section' = 1
    /\ UNCHANGED <<title, sections, requests, lockVars, typstVars, cleanerVars, cacheVars, batchVars>>

\* one iteration of the loop over `sections`
PushSection ==
    /\ next_section \in 1..Len(sections)
    /\ doc' = doc \o HeadingLine(safe_section(sections[next_section].section_name))
                  \o sections[next_section].content
    /\ next_section' = next_section + 1
    /\ UNCHANGED <<title, sections, requests, lockVars, typstVars, cleanerVars, cacheVars, batchVars>>

\* the loop is over: the function returns `doc`
DocumentReturned == next_section = Len(sections) + 1

DocumentNext == PushTemplate \/ PushSection

SpecDocument == DocumentInit /\ [][DocumentNext]_vars

generate_typst_document(t, ss) ==
    <<TEMPLATE_HEAD>> \o safe_title(t) \o <<TEMPLATE_TITLE_PAGE>>
        \o safe_title(t) \o <<TEMPLATE_TAIL>>
        \o Concat([k \in DOMAIN ss |->
                      HeadingLine(safe_section(ss[k].section_name)) \o ss[k].content])

(***************************************************************************)
(* cleaner.rs: the tokens of a page.  Besides characters and entity names, *)
(* a token is one start tag with its attributes, one end tag, the part of  *)
(* an img tag before its src value, the part after it, or one part of a    *)
(* URL (scheme, host, path, '?', a parameter name).                        *)
(***************************************************************************)
KORTEXT_PHRASES ==
    { "Sign in to Kortext", "Open book in new window",
      "You will only be able to access the book on Kortext",
      "kortext.com", "Kortext eBook", "Access via Kortext" }

PRESCRIBED_READING_PHRASES == { "Prescribed Reading", "Learning outcomes" }

\* str::to_lowercase on a text token
to_lowercase(tok) ==
    CASE tok = "Sign in to Kortext" -> "sign in to kortext"
      [] tok = "SIGN IN TO KORTEXT" -> "sign in to kortext"
      [] tok = "Open book in new window" -> "open book in new window"
      [] tok = "You will only be able to access the book on Kortext"
             -> "you will only be able to access the book on kortext"
      [] tok = "Kortext eBook" -> "kortext ebook"
      [] tok = "Access via Kortext" -> "access via kortext"
      [] tok = "Prescribed Reading" -> "prescribed reading"
      [] tok = "Learning outcomes" -> "learning outcomes"
      [] tok = "Keep me" -> "keep me"
      [] tok = "Intro" -> "intro"
      [] OTHER -> tok

\* the element names of the pages
ElementNames ==
    {"div", "section", "article", "p", "span", "script", "style", "iframe", "nav"}
        \cup {"h" \o ToString(l) : l \in 1..6}

StartTag(name) == "<" \o name \o ">"
EndTag(name) == "</" \o name \o ">"

\* start tags with attributes: the element name, the class and id attributes
\* and the spelling html5ever serializes the tag with
NO_OVERFLOW_DIV == "<div class=\"no-overflow\">"
UNQUOTED_DIV == "<div id=promo>"
KORTEXT_LINK_DIV == "<div data-href=\"https://kortext.com/book\">"
AttributedTags ==
    (NO_OVERFLOW_DIV :>
        [name |-> "div", class |-> "no-overflow", id |-> "",
         values |-> <<"no-overflow">>, html |-> NO_OVERFLOW_DIV])
    @@ (UNQUOTED_DIV :>
        [name |-> "div", class |-> "", id |-> "promo",
         values |-> <<"promo">>, html |-> "<div id=\"promo\">"])
    @@ (KORTEXT_LINK_DIV :>
        [name |-> "div", class |-> "", id |-> "",
         values |-> <<"https://", "kortext.com", "/book">>,
         html |-> KORTEXT_LINK_DIV])

IsStartTag(tok) ==
    tok \in DOMAIN AttributedTags \/ \E n \in ElementNames : tok = StartTag(n)
IsEndTag(tok) == \E n \in ElementNames : tok = EndTag(n)

\* the attributes of a start tag
TagOf(tok) ==
    IF tok \in DOMAIN AttributedTags
    THEN AttributedTags[tok]
    ELSE [name |-> CHOOSE n \in ElementNames : tok = StartTag(n),
          class |-> "", id |-> "", values |-> <<>>, html |-> tok]

\* an img tag is IMG_OPEN, the tokens of its src value, IMG_CLOSE
IMG_OPEN == "<img src=\""
IMG_CLOSE == "\">"
IMG_NO_SRC == "<img>"

\* markup lol_html refuses to rewrite (its strict mode stops with a
\* ParsingAmbiguityError at a text-type switching tag inside <select>)
AMBIGUOUS_MARKUP == "<select><xmp>"

\* a text of 5000 bytes
FILLER == "[5000 bytes of text]"

\* a text of 4971 bytes: `<div>`, this text, "Sign in to Kortext" and
\* `</div>` are 5000 bytes together
PADDING == "[4971 bytes of text]"

MarkupTokens ==
    {IMG_OPEN, IMG_CLOSE, IMG_NO_SRC, AMBIGUOUS_MARKUP} \cup DOMAIN AttributedTags
        \cup {StartTag(n) : n \in ElementNames} \cup {EndTag(n) : n \in ElementNames}

\* the position of the end tag of the element whose content starts at j
\* (depth counts the elements opened since), 0 for an element never closed
RECURSIVE MatchEnd(_, _, _)
MatchEnd(s, j, depth) ==
    IF j > Len(s) THEN 0
    ELSE IF IsStartTag(s[j]) THEN MatchEnd(s, j + 1, depth + 1)
    ELSE IF IsEndTag(s[j])
         THEN IF depth = 0 THEN j ELSE MatchEnd(s, j + 1, depth - 1)
    ELSE MatchEnd(s, j + 1, depth)

\* the last token of the element that starts at i: its end tag, or the end
\* of the text for an element that is never closed
ElementEnd(s, i) ==
    IF MatchEnd(s, i + 1, 0) = 0 THEN Len(s) ELSE MatchEnd(s, i + 1, 0)

\* the tokenization of a text: after entity normalization the characters
\* '<', 'script', '>' in a row are a script tag
Tokenize(s) ==
    Replace(Replace(s, <<"<", "script", ">">>, <<StartTag("script")>>),
            <<"<", "/script", ">">>, <<EndTag("script")>>)

(***************************************************************************)
(* cleaner.rs: clean_html_with_token, lines 70-169: the lol_html pass      *)
(***************************************************************************)
RemovedTags == {"script", "style", "iframe", "nav"}
RemovedClasses ==
    { "navigation", "breadcrumb", "modified", "activity-navigation",
      "no-overflow", "prescribed-reading", "box", "generalbox" }
RemovedIds == {"page-header"}

\* an element handler calls el.remove() for the start tag
ElementRemoved(tok) ==
    \/ TagOf(tok).name \in RemovedTags
    \/ TagOf(tok).class \in RemovedClasses
    \/ TagOf(tok).id \in RemovedIds

\* URL tokens the img handler looks for
GIF_DATA == "image/gif;base64,R0lGOD"
IconOrSpacer == {"/icon.png", "/spacer.gif"}

\* the img handler calls el.remove() for the src value
ImgRemoved(src) ==
    \/ src = <<>>
    \/ Len(src) >= 2 /\ src[1] = "data:" /\ src[2] = GIF_DATA
    \/ \E k \in DOMAIN src : src[k] \in IconOrSpacer

\* the position of the IMG_CLOSE of the img tag that starts at i
ImgEnd(s, i) == Min({j \in (i + 1)..Len(s) : s[j] = IMG_CLOSE})

\* rewrite_str fails for the page
RewriteFails(s) == \E k \in DOMAIN s : s[k] = AMBIGUOUS_MARKUP

RECURSIVE RewriteFrom(_, _)
RewriteFrom(s, i) ==
    IF i > Len(s) THEN <<>>
    ELSE IF IsStartTag(s[i]) /\ ElementRemoved(s[i])
         THEN RewriteFrom(s, ElementEnd(s, i) + 1)
    ELSE IF s[i] = IMG_NO_SRC THEN RewriteFrom(s, i + 1)
    ELSE IF s[i] = IMG_OPEN
         THEN IF ImgRemoved(SubSeq(s, i + 1, ImgEnd(s, i) - 1))
              THEN RewriteFrom(s, ImgEnd(s, i) + 1)
              ELSE SubSeq(s, i, ImgEnd(s, i)) \o RewriteFrom(s, ImgEnd(s, i) + 1)
    ELSE <<s[i]>> \o RewriteFrom(s, i + 1)

\* the string rewrite_str returns in Ok
rewrite_str(s) == RewriteFrom(s, 1)

(***************************************************************************)
(* cleaner.rs: what scraper (html5ever) reports for an element: its text,  *)
(* with the character references decoded, and its serialization            *)
(***************************************************************************)
\* the character a reference stands for; html5ever decodes each reference
\* of the source once
ReferenceChar(name) ==
    CASE name = "amp;" -> "&"
      [] name = "lt;" -> "<"
      [] name = "gt;" -> ">"
      [] name = "quot;" -> "\""
      [] name = "nbsp;" -> NBSP

References == {"amp;", "lt;", "gt;", "quot;", "nbsp;"}

RECURSIVE DecodeReferences(_)
DecodeReferences(s) ==
    IF s = <<>> THEN <<>>
    ELSE IF Len(s) >= 2 /\ s[1] = "&" /\ s[2] \in References
         THEN <<ReferenceChar(s[2])>> \o DecodeReferences(SubSeq(s, 3, Len(s)))
    ELSE <<Head(s)>> \o DecodeReferences(Tail(s))

\* the serializer writes '&', '<', '>' and the no-break space as references,
\* and a start tag with its attribute values in double quotes
SerializeToken(tok) ==
    CASE tok = "&" -> <<"&", "amp;">>
      [] tok = "<" -> <<"&", "lt;">>
      [] tok = ">" -> <<"&", "gt;">>
      [] tok = NBSP -> <<"&", "nbsp;">>
      [] IsStartTag(tok) -> <<TagOf(tok).html>>
      [] OTHER -> <<tok>>

RECURSIVE Serialize(_)
Serialize(s) ==
    IF s = <<>> THEN <<>> ELSE SerializeToken(Head(s)) \o Serialize(Tail(s))

\* the tokens of s[i..j] outside the tags; the src value of an img tag is
\* inside the tag
RECURSIVE TextBetween(_, _, _)
TextBetween(s, i, j) ==
    IF i > j THEN <<>>
    ELSE IF s[i] = IMG_OPEN THEN TextBetween(s, ImgEnd(s, i) + 1, j)
    ELSE IF s[i] \in MarkupTokens THEN TextBetween(s, i + 1, j)
    ELSE <<s[i]>> \o TextBetween(s, i + 1, j)

\* element.text().collect() for the element that starts at i
ElementText(s, i) == DecodeReferences(TextBetween(s, i, ElementEnd(s, i)))

\* element.html() for the element that starts at i; the serializer closes
\* an element the source leaves open
ElementHtml(s, i) ==
    Serialize(DecodeReferences(SubSeq(s, i, ElementEnd(s, i))))
        \o (IF MatchEnd(s, i + 1, 0) = 0 THEN <<EndTag(TagOf(s[i]).name)>> ELSE <<>>)

\* str::len of a token, in bytes
TokenLen(tok) ==
    CASE tok = FILLER -> 5000
      [] tok = PADDING -> 4971
      [] tok \in {E_ACUTE, NBSP, SQRT_SIGN} -> ByteLen(tok)
      [] OTHER -> Len(tok)

RECURSIVE StrLen(_)
StrLen(s) == IF s = <<>> THEN 0 ELSE TokenLen(Head(s)) + StrLen(Tail(s))

(***************************************************************************)
(* cleaner.rs: remove_kortext_content                                      *)
(***************************************************************************)
all_phrases == KORTEXT_PHRASES \cup PRESCRIBED_READING_PHRASES

container_selectors == <<"div", "section", "article", "p", "span">>

\* a text token is a phrase in some letter case or holds none
has_unwanted(element_text) ==
    \E k \in DOMAIN element_text : \E phrase \in all_phrases :
        to_lowercase(element_text[k]) = to_lowercase(phrase)

\* the members of a set of positions, in increasing order
RECURSIVE InOrder(_)
InOrder(S) == IF S = {} THEN <<>> ELSE <<Min(S)>> \o InOrder(S \ {Min(S)})

\* document.select(name): the elements of that name, in document order
Select(document, name) ==
    InOrder({i \in DOMAIN document :
                IsStartTag(document[i]) /\ TagOf(document[i]).name = name})

\* the elements of `document` are visited selector by selector, each in
\* document order; the removals are made in `out`
RECURSIVE KortextFrom(_, _, _)
KortextFrom(out, document, visits) ==
    IF visits = <<>> THEN out
    ELSE IF /\ has_unwanted(ElementText(document, Head(visits)))
            /\ StrLen(ElementHtml(document, Head(visits))) < 5000
            /\ StrLen(ElementHtml(document, Head(visits))) > 10
         THEN KortextFrom(Replace(out, ElementHtml(document, Head(visits)), <<>>),
                          document, Tail(visits))
    ELSE KortextFrom(out, document, Tail(visits))

remove_kortext_content(s) ==
    KortextFrom(s, s, Concat([k \in DOMAIN container_selectors |->
                                 Select(s, container_selectors[k])]))

(***************************************************************************)
(* cleaner.rs: remove_duplicate_headings_scraper                           *)
(***************************************************************************)
\* str::replacen(from, "", 1): the first occurrence of `from` is removed
RemoveFirst(s, from) ==
    IF FindFrom(s, 1, from) = 0 THEN s
    ELSE SubSeq(s, 1, FindFrom(s, 1, from) - 1)
            \o SubSeq(s, FindFrom(s, 1, from) + Len(from), Len(s))

\* the key of the heading that starts at i
HeadingKey(document, i) ==
    <<TagOf(document[i]).name, Trim(ElementText(document, i))>>

RECURSIVE DedupFrom(_, _, _, _)
DedupFrom(out, document, visits, seen_headings) ==
    IF visits = <<>> THEN out
    ELSE IF HeadingKey(document, Head(visits)) \in seen_headings
         THEN DedupFrom(RemoveFirst(out, ElementHtml(document, Head(visits))),
                        document, Tail(visits), seen_headings)
    ELSE DedupFrom(out, document, Tail(visits),
                   seen_headings \cup {HeadingKey(document, Head(visits))})

remove_duplicate_headings_scraper(s) ==
    DedupFrom(s, s, Concat([l \in 1..6 |-> Select(s, "h" \o ToString(l))]), {})

(***************************************************************************)
(* cleaner.rs: remove_empty_paragraphs_fast                                *)
(***************************************************************************)
\* the position where `\s*(&nbsp;|\s)*\s*</p>` ends when it starts at j,
\* 0 if it does not match there
RECURSIVE EmptyParagraphEnd(_, _)
EmptyParagraphEnd(s, j) ==
    IF j > Len(s) THEN 0
    ELSE IF s[j] \in Whitespace THEN EmptyParagraphEnd(s, j + 1)
    ELSE IF StartsWithAt(s, j, <<"&", "nbsp;">>) THEN EmptyParagraphEnd(s, j + 2)
    ELSE IF s[j] = EndTag("p") THEN j
    ELSE 0

RECURSIVE EmptyParagraphsFrom(_, _)
EmptyParagraphsFrom(s, i) ==
    IF i > Len(s) THEN <<>>
    ELSE IF /\ IsStartTag(s[i])
            /\ TagOf(s[i]).name = "p"
            /\ EmptyParagraphEnd(s, i + 1) # 0
         THEN EmptyParagraphsFrom(s, EmptyParagraphEnd(s, i + 1) + 1)
    ELSE <<s[i]>> \o EmptyParagraphsFrom(s, i + 1)

remove_empty_paragraphs_fast(s) == EmptyParagraphsFrom(s, 1)

(***************************************************************************)
(* cleaner.rs: fix_image_urls                                              *)
(***************************************************************************)
LMS_HOST == "mylms.vossie.net"

\* the URL tokens that start with the characters "http"
HttpPrefixed == {"http://", "https://", "httpdocs/"}

\* the closure leaves the match as it is
UrlSkipped(url) ==
    \/ \E k \in DOMAIN url : url[k] = "token="
    \/ url[1] = "data:"
    \/ url[1] \in HttpPrefixed /\ ~(\E k \in DOMAIN url : url[k] = LMS_HOST)

separator(url) == IF \E k \in DOMAIN url : url[k] = "?" THEN "&" ELSE "?"

\* the regex matches an img tag with a quoted src value of one character
\* or more
RECURSIVE FixImagesFrom(_, _, _)
FixImagesFrom(s, i, t) ==
    IF i > Len(s) THEN <<>>
    ELSE IF s[i] = IMG_OPEN /\ ImgEnd(s, i) > i + 1
         THEN LET url == SubSeq(s, i + 1, ImgEnd(s, i) - 1)
              IN  (IF UrlSkipped(url)
                   THEN <<IMG_OPEN>> \o url \o <<IMG_CLOSE>>
                   ELSE <<IMG_OPEN>> \o url \o <<separator(url), "token=", t, IMG_CLOSE>>)
                  \o FixImagesFrom(s, ImgEnd(s, i) + 1, t)
    ELSE <<s[i]>> \o FixImagesFrom(s, i + 1, t)

fix_image_urls(s, t) == FixImagesFrom(s, 1, t)

(***************************************************************************)
(* cleaner.rs: clean_html_with_token, lines 194-203: entity encoding       *)
(***************************************************************************)
FixEntityEncoding(s) ==
    LET r1 == Replace(s, <<"&", "amp;", "nbsp;">>, <<" ">>)
        r2 == Replace(r1, <<"&", "amp;", "gt;">>, <<">">>)
        r3 == Replace(r2, <<"&", "amp;", "lt;">>, <<"<">>)
        r4 == Replace(r3, <<"&", "amp;", "quot;">>, <<"\"">>)
        r5 == Replace(r4, <<"&", "amp;", "amp;">>, <<"&">>)
        r6 == Replace(r5, <<"&", "nbsp;">>, <<" ">>)
        r7 == Replace(r6, <<"&", "gt;">>, <<">">>)
        r8 == Replace(r7, <<"&", "lt;">>, <<"<">>)
    IN  Replace(r8, <<"&", "quot;">>, <<"\"">>)

(***************************************************************************)
(* cleaner.rs: the pages clean_html_with_token is called with              *)
(***************************************************************************)
MaxBlocks == 3
MaxEntityLen == 5
MaxImages == 2

Element(name, content) == <<StartTag(name)>> \o content \o <<EndTag(name)>>

\* the pieces a structured page is made of
Blocks ==
    { Element("h2", <<"Intro">>),
      Element("h2", <<" ", "Intro", " ">>),
      Element("h3", <<"Intro">>),
      Element("h2", <<>>),
      Element("p", <<"Keep me">>),
      Element("p", <<" ", "&", "nbsp;">>),
      Element("div", <<"Sign in to Kortext">>),
      Element("p", <<"SIGN IN TO KORTEXT">>),
      Element("div", <<FILLER, "Sign in to Kortext">>),
      <<NO_OVERFLOW_DIV, "Keep me", EndTag("div")>>,
      <<UNQUOTED_DIV, "Sign in to Kortext", EndTag("div")>>,
      Element("script", <<"alert(1)">>),
      <<"Keep me">> }

\* a structured page: blocks side by side, in the body or in one parent
StructuredPages ==
    LET bodies == {Concat(bs) : bs \in SeqsUpTo(Blocks, MaxBlocks)}
    IN  bodies \cup {Element("div", b) : b \in bodies}
               \cup {Element("section", b) : b \in bodies}

\* a page of text with character references, encoded once or more
EntityAlphabet == {"&", "amp;", "lt;", "gt;", "script"}
EntityPages ==
    SeqsUpTo(EntityAlphabet, MaxEntityLen)
        \cup { <<"&", "lt;", "script", "&", "gt;", "&", "lt;", "/script", "&", "gt;">>,
               <<"&", "amp;", "amp;", "amp;", "lt;">>,
               <<"&", "amp;", "amp;", "amp;", "amp;", "lt;">> }

\* src values: relative, same-origin, cross-origin, protocol-relative,
\* data URIs, with a query, with a token
Urls ==
    { <<"/a.png">>,
      <<"/file.php", "?", "id=5">>,
      <<"https://", LMS_HOST, "/a.png">>,
      <<"//", LMS_HOST, "/a.png">>,
      <<"https://", "evil.example", "/a.png">>,
      <<"//", "evil.example", "/a.png">>,
      <<"https://", "evil.example", "/a.png", "?", "ref=", LMS_HOST>>,
      <<"data:", "image/png;base64,iVBORw">>,
      <<"data:", GIF_DATA>>,
      <<"/file.php", "?", "token=", "old">>,
      <<"httpdocs/", "a.png">>,
      <<"/icon.png">>,
      <<>> }

Img(url) == <<IMG_OPEN>> \o url \o <<IMG_CLOSE>>

ImagePages ==
    {Concat([k \in DOMAIN us |-> Img(us[k])]) : us \in SeqsUpTo(Urls, MaxImages)}
        \cup {<<IMG_NO_SRC>>}

AmbiguousPages ==
    { <<AMBIGUOUS_MARKUP>>,
      <<AMBIGUOUS_MARKUP>> \o Element("p", <<"Sign in to Kortext">>) }

\* pages with a container one of whose attribute values holds a phrase
AttributePages ==
    LET linked == <<KORTEXT_LINK_DIV, "Keep me", EndTag("div")>>
    IN  { linked,
          linked \o Element("p", <<"Keep me">>),
          Element("div", linked),
          Element("div", <<"Sign in to Kortext">>) \o linked }

\* pages with an img beside or inside other markup
ImageContextPages ==
    { Img(<<"/icon.png">>) \o <<AMBIGUOUS_MARKUP>>,
      <<IMG_NO_SRC, AMBIGUOUS_MARKUP>>,
      Element("nav", Img(<<"/a.png">>)),
      Element("p", Img(<<"/a.png">>)),
      Element("div", <<"Sign in to Kortext">> \o Img(<<"/a.png">>)),
      Element("div", <<"Keep me">> \o Img(<<"/spacer.gif">>) \o Img(<<"/a.png">>)) }

\* pages with a container of 5000 bytes or more, or just less, that holds
\* a denylisted phrase
LargeContainerPages ==
    { <<NO_OVERFLOW_DIV, FILLER, "Sign in to Kortext", EndTag("div")>>,
      Element("div", <<FILLER>> \o Element("p", <<"Sign in to Kortext">>)),
      Element("section", <<FILLER, "Prescribed Reading">>),
      Element("div", <<PADDING, "Sign in to Kortext">>),
      Element("p", <<PADDING, "Sign in to Kortext">>) }

CleanInputs ==
    StructuredPages \cup EntityPages \cup ImagePages \cup AmbiguousPages
        \cup AttributePages \cup ImageContextPages \cup LargeContainerPages

CleanTokens == {<<>>, <<"abc">>}

CleanInit ==
    /\ page \in CleanInputs
    /\ token \in CleanTokens
    /\ pass = "rewrite"
    /\ output = <<>>
    /\ html = <<>> /\ stage = "idle" /\ result = <<>> /\ math_blocks = <<>>
    /\ ServerIdle


(***************************************************************************)
(* cleaner.rs: clean_html_with_token as a state machine, one action per    *)
(* statement                                                               *)
(***************************************************************************)
ReturnEmpty ==
    /\ pass = "rewrite"
    /\ page = <<>>
    /\ output' = <<>>
    /\ pass' = "done"
    /\ UNCHANGED <<page, token, typstVars, serverVars, extraVars>>

Rewrite ==
    /\ pass = "rewrite"
    /\ page # <<>>
    /\ ~RewriteFails(Tokenize(page))
    /\ output' = rewrite_str(Tokenize(page))
    /\ pass' = "remove_kortext_content"
    /\ UNCHANGED <<page, token, typstVars, serverVars, extraVars>>

\* a rewrite error that leaves the function as an error
RewriteAborts ==
    /\ pass = "rewrite"
    /\ page # <<>>
    /\ RewriteFails(Tokenize(page))
    /\ output' = <<>>
    /\ pass' = "error"
    /\ UNCHANGED <<page, token, typstVars, serverVars, extraVars>>

\* the Err branch: the function returns its argument
RewriteError ==
    /\ pass = "rewrite"
    /\ page # <<>>
    /\ RewriteFails(Tokenize(page))
    /\ output' = Tokenize(page)
    /\ pass' = "done"
    /\ UNCHANGED <<page, token, typstVars, serverVars, extraVars>>

RemoveKortextContent ==
    /\ pass = "remove_kortext_content"
    /\ output' = remove_kortext_content(output)
    /\ pass' = "remove_duplicate_headings"
    /\ UNCHANGED <<page, token, typstVars, serverVars, extraVars>>

RemoveDuplicateHeadings ==
    /\ pass = "remove_duplicate_headings"
    /\ output' = remove_duplicate_headings_scraper(output)
    /\ pass' = "remove_empty_paragraphs"
    /\ UNCHANGED <<page, token, typstVars, serverVars, extraVars>>

RemoveEmptyParagraphs ==
    /\ pass = "remove_empty_paragraphs"
    /\ output' = remove_empty_paragraphs_fast(output)
    /\ pass' = "fix_image_urls"
    /\ UNCHANGED <<page, token, typstVars, serverVars, extraVars>>

FixImageUrls ==
    /\ pass = "fix_image_urls"
    /\ output' = IF token # <<>> THEN fix_image_urls(output, token[1]) ELSE output
    /\ pass' = "fix_entity_encoding"
    /\ UNCHANGED <<page, token, typstVars, serverVars, extraVars>>

\* the state after the last replace holds the returned string
FixEntities ==
    /\ pass = "fix_entity_encoding"
    /\ output' = Tokenize(FixEntityEncoding(output))
    /\ pass' = "done"
    /\ UNCHANGED <<page, token, typstVars, serverVars, extraVars>>

CleanNext ==
    \/ ReturnEmpty
    \/ Rewrite
    \/ RewriteError
    \/ RemoveKortextContent
    \/ RemoveDuplicateHeadings
    \/ RemoveEmptyParagraphs
    \/ FixImageUrls
    \/ FixEntities

SpecClean == CleanInit /\ [][CleanNext]_vars

\* the value clean_html_with_token returns for the page s and the token t
clean_html_with_token(s, t) ==
    IF s = <<>> THEN <<>>
    ELSE IF RewriteFails(Tokenize(s)) THEN Tokenize(s)
    ELSE LET o == remove_empty_paragraphs_fast(
                      remove_duplicate_headings_scraper(
                          remove_kortext_content(rewrite_str(Tokenize(s)))))
         IN  Tokenize(FixEntityEncoding(
                 IF t # <<>> THEN fix_image_urls(o, t[1]) ELSE o))

(***************************************************************************)
(* cache/memory.rs: MemoryCache as a state machine.  Every acquisition of  *)
(* the RwLock is one step; get, which drops its read guard before it calls *)
(* delete, is two.                                                         *)
(***************************************************************************)
Returned(t, op, key, ret) == [thread |-> t, op |-> op, key |-> key, ret |-> ret]

Idle(t) == pending[t] = None

\* an expiry check that never fires
NeverExpired(entry, instant) == FALSE

\* get: `Instant::now() > expires_at` under `if let Some(expires_at)`
Expired(entry, instant) ==
    /\ entry.expires_at # None
    /\ instant > entry.expires_at[1]

\* get and has up to `drop(store)`; has is get followed by is_some()
GetRead(t, key, op) ==
    /\ Idle(t)
    /\ IF key \notin DOMAIN store
       THEN /\ last' = Returned(t, op, key, IF op = "has" THEN FALSE ELSE None)
            /\ UNCHANGED pending
       ELSE IF Expired(store[key], now)
       THEN /\ pending' = [pending EXCEPT ![t] = Some([op |-> op, key |-> key])]
            /\ UNCHANGED last
       ELSE /\ last' = Returned(t, op, key,
                           IF op = "has" THEN TRUE ELSE Some(store[key].value))
            /\ UNCHANGED pending
    /\ UNCHANGED <<store, now, typstVars, cleanerVars, extraVars, batchVars>>

\* get from `self.delete(key)` to `return None`
GetEvict(t) ==
    /\ ~Idle(t)
    /\ store' = remove(store, pending[t][1].key)
    /\ pending' = [pending EXCEPT ![t] = None]
    /\ last' = Returned(t, pending[t][1].op, pending[t][1].key,
                        IF pending[t][1].op = "has" THEN FALSE ELSE None)
    /\ UNCHANGED <<now, typstVars, cleanerVars, extraVars, batchVars>>

Set(t, key, value, ttl) ==
    /\ Idle(t)
    /\ store' = insert(store, key,
                       CacheEntry(value, IF ttl = None THEN None
                                         ELSE Some(now + ttl[1])))
    /\ last' = Returned(t, "set", key, TRUE)
    /\ UNCHANGED <<now, pending, typstVars, cleanerVars, extraVars, batchVars>>

Delete(t, key) ==
    /\ Idle(t)
    /\ store' = remove(store, key)
    /\ last' = Returned(t, "delete", key, key \in DOMAIN store)
    /\ UNCHANGED <<now, pending, typstVars, cleanerVars, extraVars, batchVars>>

Clear(t) ==
    /\ Idle(t)
    /\ store' = new
    /\ last' = Returned(t, "clear", "", TRUE)
    /\ UNCHANGED <<now, pending, typstVars, cleanerVars, extraVars, batchVars>>

\* the monotonic clock behind Instant::now() advances
Tick ==
    /\ now < MaxTime
    /\ now' = now + 1
    /\ UNCHANGED <<store, pending, last, typstVars, cleanerVars, extraVars, batchVars>>

CacheInit ==
    /\ CacheNew
    /\ BatchIdle
    /\ ExtraIdle
    /\ html = <<>> /\ stage = "idle" /\ result = <<>> /\ math_blocks = <<>>
    /\ page = <<>> /\ token = <<>> /\ pass = "idle" /\ output = <<>>

CacheNext ==
    \/ \E t \in Threads, key \in Keys, op \in {"get", "has"} : GetRead(t, key, op)
    \/ \E t \in Threads : GetEvict(t)
    \/ \E t \in Threads, key \in Keys, value \in Values, ttl \in Ttls :
          Set(t, key, value, ttl)
    \/ \E t \in Threads, key \in Keys : Delete(t, key)
    \/ \E t \in Threads : Clear(t)
    \/ Tick

SpecCache == CacheInit /\ [][CacheNext]_vars

(***************************************************************************)
(* cache/memory.rs: MemoryCache at the level of the RwLock                 *)
(*                                                                         *)
(* A call waits for the lock, holds it, and releases it; get on an expired *)
(* entry does so twice, first for reading and then, in delete, for         *)
(* writing.                                                                *)
(***************************************************************************)

\* the call of thread t: where it stands and its arguments
Call(where, op, key, value, ttl) ==
    [at |-> where, op |-> op, key |-> key, value |-> value, ttl |-> ttl]

NotCalling == Call("idle", "", "", "", None)

\* a guard that is kept: the lock stays as it is
keep(l, t) == l

\* drop(store) of a read guard
drop(l, t) == [l EXCEPT !.readers = @ \ {t}]

\* the operations that take the write lock at once
WriteOps == {"set", "delete", "clear"}

\* a thread enters get, has, set, delete or clear
Enter(t, op, key, value, ttl) ==
    /\ point[t].at = "idle"
    /\ point' = [point EXCEPT ![t] =
                    Call(IF op \in WriteOps THEN "write_wait" ELSE "read_wait",
                         op, key, value, ttl)]
    /\ UNCHANGED <<lock, cacheVars, batchVars, typstVars, cleanerVars,
                   documentVars, requests>>

\* self.store.read() returns: no writer holds the lock
AcquireRead(t) ==
    /\ point[t].at = "read_wait"
    /\ lock.writer = None
    /\ lock' = [lock EXCEPT !.readers = @ \cup {t}]
    /\ point' = [point EXCEPT ![t].at = "reading"]
    /\ UNCHANGED <<cacheVars, batchVars, typstVars, cleanerVars,
                   documentVars, requests>>

\* get under the read guard: the entry is missing or live and get returns,
\* its guard going out of scope, or the entry has expired and get drops
\* the guard and enters delete
ReadEntry(t) ==
    /\ point[t].at = "reading"
    /\ IF point[t].key \in DOMAIN store /\ Expired(store[point[t].key], now)
       THEN /\ lock' = drop(lock, t)
            /\ point' = [point EXCEPT ![t].at = "evict_wait"]
       ELSE /\ lock' = [lock EXCEPT !.readers = @ \ {t}]
            /\ point' = [point EXCEPT ![t] = NotCalling]
    /\ UNCHANGED <<cacheVars, batchVars, typstVars, cleanerVars,
                   documentVars, requests>>

\* self.store.write() returns: nobody holds the lock
AcquireWrite(t) ==
    /\ point[t].at \in {"write_wait", "evict_wait"}
    /\ lock.writer = None
    /\ lock.readers = {}
    /\ lock' = [lock EXCEPT !.writer = Some(t)]
    /\ point' = [point EXCEPT ![t].at = "writing"]
    /\ UNCHANGED <<cacheVars, batchVars, typstVars, cleanerVars,
                   documentVars, requests>>

\* the body of set, delete or clear under the write guard, and its return
WriteStore(t) ==
    /\ point[t].at = "writing"
    /\ store' = CASE point[t].op = "set" ->
                       insert(store, point[t].key,
                              CacheEntry(point[t].value,
                                         IF point[t].ttl = None THEN None
                                         ELSE Some(now + point[t].ttl[1])))
                  [] point[t].op = "clear" -> new
                  [] OTHER -> remove(store, point[t].key)
    /\ lock' = [lock EXCEPT !.writer = None]
    /\ point' = [point EXCEPT ![t] = NotCalling]
    /\ UNCHANGED <<now, pending, last, batchVars, typstVars, cleanerVars,
                   documentVars, requests>>

LockInit ==
    /\ CacheNew
    /\ BatchIdle
    /\ DocumentIdle
    /\ ServeIdle
    /\ LockIdle
    /\ html = <<>> /\ stage = "idle" /\ result = <<>> /\ math_blocks = <<>>
    /\ page = <<>> /\ token = <<>> /\ pass = "idle" /\ output = <<>>

LockNext ==
    \/ \E t \in Threads, key \in Keys, op \in {"get", "has", "delete"} :
          Enter(t, op, key, "", None)
    \/ \E t \in Threads, key \in Keys, ttl \in Ttls :
          Enter(t, "set", key, "value1", ttl)
    \/ \E t \in Threads : Enter(t, "clear", "", "", None)
    \/ \E t \in Threads : AcquireRead(t)
    \/ \E t \in Threads : ReadEntry(t)
    \/ \E t \in Threads : AcquireWrite(t)
    \/ \E t \in Threads : WriteStore(t)
    \/ Tick

\* a thread that holds the lock goes on and releases it; the lock is
\* granted to a thread for which it is free again and again
LockFairness ==
    \A t \in Threads :
        /\ WF_vars(ReadEntry(t))
        /\ WF_vars(WriteStore(t))
        /\ SF_vars(AcquireRead(t))
        /\ SF_vars(AcquireWrite(t))

SpecLocks == LockInit /\ [][LockNext]_vars /\ LockFairness


(***************************************************************************)
(* routes/content.rs: batch_prefetch as a state machine.  The futures of   *)
(* `futures` run on the handler's task, so a future runs from one await to *)
(* the next without another one in between: a step is one such stretch.    *)
(***************************************************************************)
MaxUrls == 11

PERMITS == 10
CACHE_TTL == 3600

\* the activity URLs of the requests; the last one carries no module id
ACTIVITY_1 == "/mod/page/view.php?id=1"
ACTIVITY_2 == "/mod/page/view.php?id=2"
ACTIVITY_3 == "/mod/book/view.php?chapter=4&id=3"
NO_MODULE_ID == "/mod/page/view.php"

\* extract_module_id: the digits after `?id=` or `&id=`
extract_module_id(url) ==
    CASE url = ACTIVITY_1 -> Some(1)
      [] url = ACTIVITY_2 -> Some(2)
      [] url = ACTIVITY_3 -> Some(3)
      [] OTHER -> None

\* MemoryCache::url_hash, a hexadecimal digest of the URL
url_hash(url) ==
    CASE url = ACTIVITY_1 -> "8f1c"
      [] url = ACTIVITY_2 -> "03ab"
      [] url = ACTIVITY_3 -> "e270"
      [] OTHER -> "5d96"

cache_key(url) == "activity:" \o url_hash(url)

\* what the LMS serves for an activity
Content(url) ==
    <<"<p>", url, "</p>">> \o Img(<<"/a.png">>) \o <<"<script>", "x", "</script>">>

\* the auth tokens of the requesters
Tokens == {"abc", "xyz"}

ActivityUrls == {ACTIVITY_1, ACTIVITY_2, ACTIVITY_3, NO_MODULE_ID}

\* `clean_html_with_token(&content, Some(&token))` of what is served
cleaned == [url \in ActivityUrls, t \in Tokens |->
               clean_html_with_token(Content(url), Some(t))]

RequestPattern == <<ACTIVITY_1, ACTIVITY_2, ACTIVITY_3>>

\* request.urls: up to MaxUrls activities in turn, and lists with a repeated
\* and a malformed URL
Requests ==
    {[i \in 1..n |-> RequestPattern[((i - 1) % Len(RequestPattern)) + 1]] :
        n \in 0..MaxUrls}
    \cup {<<NO_MODULE_ID>>, <<ACTIVITY_2, NO_MODULE_ID, ACTIVITY_2>>}

BatchPrefetchItem(url, success, content, error) ==
    [url |-> url, success |-> success, content |-> content, error |-> error]

\* an admission that takes a permit whether or not one is left
Ungated(available) == TRUE

\* tokio's Semaphore::acquire: a permit is there to take
CanAcquire(available) == available > 0

\* the futures before this one have asked for their permit before it:
\* join_all polls in order and the semaphore serves its waiters in order
FirstWaiter(i) == \A j \in 1..(i - 1) : units[j] # "acquire"

\* the permit `_permit` is dropped as the future returns its item
Finish(i, item) ==
    /\ units' = [units EXCEPT ![i] = "done"]
    /\ items' = [items EXCEPT ![i] = Some(item)]

\* from `semaphore.acquire().await` to the next await or the return
Acquire(i) ==
    /\ response = None
    /\ units[i] = "acquire"
    /\ FirstWaiter(i)
    /\ CanAcquire(permits)
    /\ LET key == cache_key(urls[i]) IN
       IF key \in DOMAIN store /\ ~Expired(store[key], now)
       THEN \* CACHE.get returned the cached content
            /\ Finish(i, BatchPrefetchItem(urls[i], TRUE,
                                           Some(store[key].value), None))
            /\ UNCHANGED <<store, permits>>
       ELSE /\ store' = remove(store, key)
            /\ IF extract_module_id(urls[i]) = None
               THEN /\ Finish(i, BatchPrefetchItem(urls[i], FALSE, None,
                                                   Some("Invalid URL format")))
                    /\ UNCHANGED permits
               ELSE /\ units' = [units EXCEPT ![i] = "fetch"]
                    /\ permits' = permits - 1
                    /\ UNCHANGED items
    /\ UNCHANGED <<urls, response, now, pending, last, typstVars, cleanerVars, extraVars>>

\* fetch_activity_content returned Ok(content)
FetchOk(i) ==
    /\ units[i] = "fetch"
    /\ store' = insert(store, cache_key(urls[i]),
                       CacheEntry(cleaned[urls[i], token[1]], Some(now + CACHE_TTL)))
    /\ Finish(i, BatchPrefetchItem(urls[i], TRUE,
                                   Some(cleaned[urls[i], token[1]]), None))
    /\ permits' = permits + 1
    /\ UNCHANGED <<urls, response, now, pending, last, typstVars, cleanerVars, extraVars>>

\* fetch_activity_content returned Err(e)
FetchErr(i) ==
    /\ units[i] = "fetch"
    /\ Finish(i, BatchPrefetchItem(urls[i], FALSE, None,
                                   Some("Failed to get module info")))
    /\ permits' = permits + 1
    /\ UNCHANGED <<urls, response, store, now, pending, last,
                   typstVars, cleanerVars, extraVars>>

\* a count that takes every item for a loaded one
CountAll(list) == Len(list)

\* `items.iter().filter(|i| i.success).count()`
loaded(list) == Cardinality({i \in DOMAIN list : list[i].success})

\* join_all has every future's item, in the order of `futures`
Respond ==
    /\ response = None
    /\ \A i \in DOMAIN units : units[i] = "done"
    /\ LET joined == [i \in DOMAIN items |-> items[i][1]] IN
       response' = Some([success |-> TRUE, total |-> Len(joined),
                         loaded |-> loaded(joined), items |-> joined])
    /\ UNCHANGED <<urls, units, items, permits, cacheVars,
                   typstVars, cleanerVars, extraVars>>

\* the cache as an earlier request left it
Caches ==
    {new,
     insert(new, cache_key(ACTIVITY_2),
            CacheEntry(<<"<p>", "cached", "</p>">>, Some(CACHE_TTL)))}

BatchInit ==
    /\ ExtraIdle
    /\ urls \in Requests
    /\ units = [i \in DOMAIN urls |-> "acquire"]
    /\ items = [i \in DOMAIN urls |-> None]
    /\ permits = PERMITS
    /\ response = None
    /\ store \in Caches
    /\ now = 0
    /\ pending = [t \in Threads |-> None]
    /\ last = NoCall
    /\ html = <<>> /\ stage = "idle" /\ result = <<>> /\ math_blocks = <<>>
    /\ page = <<>> /\ token = Some("abc") /\ pass = "idle" /\ output = <<>>

BatchNext ==
    \/ \E i \in DOMAIN urls : Acquire(i)
    \/ \E i \in DOMAIN urls : FetchOk(i)
    \/ \E i \in DOMAIN urls : FetchErr(i)
    \/ Respond

SpecBatch == BatchInit /\ [][BatchNext]_vars

(***************************************************************************)
(* routes/content.rs: get_activity_content beside batch_prefetch           *)
(*                                                                         *)
(* A request is served in two stretches: the cache lookup with the check   *)
(* of the URL, and, after the awaits on the LMS, the outcome of the fetch. *)
(* Requests of several requesters and one batch run side by side on the    *)
(* one cache.                                                              *)
(***************************************************************************)

\* the requests and the waits beyond these bounds are not enumerated
MaxRequests == 2
MaxSleeps == 1

ContentResponse(success, content, is_cached, error) ==
    [success |-> success, content |-> content, cached |-> is_cached, error |-> error]

\* a request of the requester with token t, with its response once sent
Request(t, url, reply) == [token |-> t, url |-> url, response |-> reply]

Fetching(i) == requests[i].response = None

Reply(i, reply) == requests' = [requests EXCEPT ![i].response = Some(reply)]

\* the ways the fetch fails after the lookup, by the error of the response
FetchErrors ==
    {"Failed to get module info", "Could not extract course ID",
     "No HTML content available for this activity",
     "Failed to download any content"}

\* a failed fetch that stores its error as content
ActivityFailedCached(i, error) ==
    /\ Fetching(i)
    /\ Reply(i, ContentResponse(FALSE, None, None, Some(error)))
    /\ store' = insert(store, cache_key(requests[i].url),
                       CacheEntry(<<error>>, Some(now + CACHE_TTL)))
    /\ UNCHANGED <<now, pending, last, batchVars, typstVars, cleanerVars,
                   documentVars, lockVars>>

\* extract_token, CACHE.get and extract_module_id
Lookup(t, url) ==
    /\ Len(requests) < MaxRequests
    /\ LET key == cache_key(url) IN
       IF key \in DOMAIN store /\ ~Expired(store[key], now)
       THEN /\ requests' = Append(requests,
                   Request(t, url, Some(ContentResponse(TRUE, Some(store[key].value),
                                                        Some(TRUE), None))))
            /\ UNCHANGED store
       ELSE /\ store' = remove(store, key)
            /\ requests' = Append(requests,
                   Request(t, url,
                       IF extract_module_id(url) = None
                       THEN Some(ContentResponse(FALSE, None, None,
                                Some("Invalid URL format - could not extract module ID")))
                       ELSE None))
    /\ UNCHANGED <<now, pending, last, batchVars, typstVars, cleanerVars,
                   documentVars, lockVars>>

\* the content was downloaded: it is cleaned with the requester's token,
\* cached for an hour and returned
ActivityFetched(i) ==
    /\ Fetching(i)
    /\ LET content == cleaned[requests[i].url, requests[i].token] IN
       /\ store' = insert(store, cache_key(requests[i].url),
                          CacheEntry(content, Some(now + CACHE_TTL)))
       /\ Reply(i, ContentResponse(TRUE, Some(content), Some(FALSE), None))
    /\ UNCHANGED <<now, pending, last, batchVars, typstVars, cleanerVars,
                   documentVars, lockVars>>

\* the module info, the course contents or every download failed
ActivityFailed(i, error) ==
    /\ Fetching(i)
    /\ Reply(i, ContentResponse(FALSE, None, None, Some(error)))
    /\ UNCHANGED <<store, now, pending, last, batchVars, typstVars, cleanerVars,
                   documentVars, lockVars>>

\* more than an hour passes: what is cached at this instant expires
Sleep ==
    /\ now < MaxSleeps * (CACHE_TTL + 1)
    /\ now' = now + CACHE_TTL + 1
    /\ UNCHANGED <<store, pending, last, requests, batchVars, typstVars,
                   cleanerVars, documentVars, lockVars>>

\* request.urls of the batch that runs beside the single requests
ServeBatches ==
    {<<>>, <<ACTIVITY_1>>, <<NO_MODULE_ID, ACTIVITY_1>>}

\* the URLs of the single requests
ServeUrls == {ACTIVITY_1, NO_MODULE_ID}

ServeInit ==
    /\ requests = <<>>
    /\ store = new
    /\ now = 0
    /\ pending = [t \in Threads |-> None]
    /\ last = NoCall
    /\ urls \in ServeBatches
    /\ token \in {Some(t) : t \in Tokens}
    /\ units = [i \in DOMAIN urls |-> "acquire"]
    /\ items = [i \in DOMAIN urls |-> None]
    /\ permits = PERMITS
    /\ response = None
    /\ html = <<>> /\ stage = "idle" /\ result = <<>> /\ math_blocks = <<>>
    /\ page = <<>> /\ pass = "idle" /\ output = <<>>
    /\ DocumentIdle
    /\ LockIdle

ServeNext ==
    \/ \E t \in Tokens, url \in ServeUrls : Lookup(t, url)
    \/ \E i \in DOMAIN requests : ActivityFetched(i)
    \/ \E i \in DOMAIN requests, error \in FetchErrors : ActivityFailed(i, error)
    \/ Sleep
    \/ BatchNext

SpecServe == ServeInit /\ [][ServeNext]_vars


(***************************************************************************)
(* Properties of html_to_typst                                             *)
(***************************************************************************)
\* heading tags are well nested: every closing tag closes the heading opened
\* last, and none stays open
RECURSIVE WellNested(_, _)
WellNested(s, open) ==
    IF s = <<>> THEN open = <<>>
    ELSE IF \E l \in 1..6 : Head(s) = HeadingOpen(l)
         THEN WellNested(Tail(s), <<Head(s)>> \o open)
    ELSE IF \E l \in 1..6 : Head(s) = HeadingClose(l)
         THEN /\ open # <<>>
              /\ \E l \in 1..6 : Head(open) = HeadingOpen(l) /\ Head(s) = HeadingClose(l)
              /\ WellNested(Tail(s), Tail(open))
    ELSE WellNested(Tail(s), open)

\* math delimiters come in pairs
BalancedMath(s) ==
    /\ Count(s, "$") % 2 = 0
    /\ Count(s, "(") = Count(s, ")")
    /\ Count(s, "[") = Count(s, "]")

Balanced(s) == WellNested(s, <<>>) /\ BalancedMath(s)

\* C1: for every input whose math delimiters and heading tags are balanced,
\* the text html_to_typst returns holds no math or heading start/end
\* sentinel, neither in its raw nor in its underscore-escaped spelling.
C1_NoUnresolvedPlaceholder ==
    (stage = "done" /\ Balanced(html))
        => \A k \in DOMAIN result : result[k] \notin Sentinels \cup EscSentinels

\* every '$' of s is followed by a digit, and the amount it introduces is
\* not followed by a '$'
RECURSIVE AmountEnd(_, _)
AmountEnd(s, i) ==
    IF i <= Len(s) /\ s[i] \in Numeric \cup {".", ","} THEN AmountEnd(s, i + 1) ELSE i

CurrencyOnly(s) ==
    \A k \in DOMAIN s :
        s[k] = "$" => /\ k < Len(s)
                      /\ s[k + 1] \in Numeric
                      /\ (AmountEnd(s, k + 1) > Len(s) \/ s[AmountEnd(s, k + 1)] # "$")

\* C8: a '$' that introduces a currency amount is never taken as a math
\* delimiter, whatever follows it on the same line (math extraction records
\* no expression for a text whose every '$' introduces an amount), and
\* '$x+y$' is extracted as one inline expression.
C8_CurrencyIsNotMath ==
    stage = "extract_headings"
        => /\ CurrencyOnly(DecodeEntities(html)) => math_blocks = <<>>
           /\ html = <<"$", "x", "+", "y", "$">>
                => /\ math_blocks = <<[display |-> FALSE, latex |-> <<"x", "+", "y">>]>>
                   /\ result = Placeholder(0)

\* the inputs without math and without a backslash of their own
PlainInput(s) == \A k \in DOMAIN s : s[k] \notin {"$", "\\"}

\* the text the escaping stage receives for the input s
EscapeInput(s) ==
    strip_html_tags(convert_lists(extract_headings(extract_math(DecodeEntities(s)).text)))

\* the input is one heading around a text of plain characters
IsOneHeading(s) ==
    /\ Len(s) >= 2
    /\ s[1] = HeadingOpen(1)
    /\ s[Len(s)] = HeadingClose(1)
    /\ \A k \in 2..(Len(s) - 1) :
          s[k] \notin Tags \cup {"$", "\\", "<", ">", "&", E_ACUTE}

\* the number of metacharacters of s outside the placeholder spans, a span
\* running from a start sentinel to the next end sentinel of its kind
RECURSIVE MetaOutside(_)
MetaOutside(s) ==
    IF s = <<>> THEN 0
    ELSE IF Head(s) = MATH_START /\ Contains(s, <<MATH_END>>)
         THEN MetaOutside(SubSeq(s, FindFrom(s, 1, <<MATH_END>>) + 1, Len(s)))
    ELSE IF Head(s) = HEADING_START /\ Contains(s, <<HEADING_END>>)
         THEN MetaOutside(SubSeq(s, FindFrom(s, 1, <<HEADING_END>>) + 1, Len(s)))
    ELSE (IF Head(s) \in MetaChars THEN 1 ELSE 0) + MetaOutside(Tail(s))

\* C9: every metacharacter that stands outside the placeholder spans when
\* the escaping stage runs is in the output with one backslash before it
\* (for an input without backslashes and math: the output holds one
\* backslash for each of them, each before a metacharacter), and the text
\* of a restored heading is the heading's cleaned text, with no backslash
\* added.
C9_EscapedOnceOutsideHeadings ==
    (stage = "done" /\ PlainInput(html))
        => /\ Count(result, "\\") = MetaOutside(EscapeInput(html))
           /\ \A k \in DOMAIN result :
                 result[k] = "\\" => k < Len(result) /\ result[k + 1] \in MetaChars
           /\ IsOneHeading(html)
                => result = clean_whitespace(
                       <<"=", " ">> \o CleanContent(SubSeq(html, 2, Len(html) - 1)))

\* the span restore_math writes for block i, as clean_whitespace leaves it
MathSpan(block) == Trim(CollapseRuns(MathReplacement(block), 1, " ", 2, <<" ">>))

\* the positions of the math spans of `blocks` in text s, by block index;
\* 0 for a block that has none
SpanPos(s, blocks) == [i \in DOMAIN blocks |-> FindFrom(s, 1, MathSpan(blocks[i]))]

\* the positions of the placeholders in the text extract_math returns
PlaceholderPos(s, blocks) == [i \in DOMAIN blocks |-> FindFrom(s, 1, Placeholder(i - 1))]

\* C10: extraction and restoration are paired by index: every extracted
\* expression is in the output inside math delimiters, and the spans stand
\* in the output in the order their placeholders stood in after extraction.
C10_MathRoundTrip ==
    stage = "done"
        => LET x == extract_math(DecodeEntities(html)).text
               at == SpanPos(result, math_blocks)
               ph == PlaceholderPos(x, math_blocks)
           IN  /\ \A i \in DOMAIN math_blocks : at[i] # 0
               /\ \A i, j \in DOMAIN math_blocks :
                     (ph[i] # 0 /\ ph[j] # 0 /\ ph[i] < ph[j]) => at[i] < at[j]

\* s holds n or more tok in a row
HasRun(s, tok, n) == \E i \in DOMAIN s : RunLen(s, i, tok) >= n

\* C19: the string html_to_typst returns holds no two spaces in a row and no
\* three newlines in a row (lines of spaces between newlines in the input
\* included), no line of it ends in whitespace, and it neither starts nor
\* ends with whitespace.
C19_WhitespacePostcondition ==
    stage = "done"
        => /\ ~HasRun(result, " ", 2)
           /\ ~HasRun(result, "\n", 3)
           /\ \A i \in DOMAIN result :
                 (result[i] = "\n" /\ i > 1) => result[i - 1] \notin {" ", NBSP}
           /\ result # <<>> =>
                 result[1] \notin Whitespace /\ result[Len(result)] \notin Whitespace

\* tex2typst returns Err for the expression of the block
TranslationFails(block) ==
    ~Tex2Typst(Replace(block.latex, <<SQRT_SIGN>>,
                       <<"\\", "s", "q", "r", "t", " ">>)).ok

\* the source of the block inside math delimiters, as restore_math writes a
\* display and an inline expression
SourceSpan(block) ==
    IF block.display THEN <<"$", " ">> \o block.latex \o <<" ", "$">>
    ELSE <<"$">> \o block.latex \o <<"$">>

\* C20: when the translation of an extracted expression fails, the text
\* html_to_typst returns holds the source of that expression, untranslated,
\* inside math delimiters, where its placeholder stood among the other
\* expressions, and every other expression is restored as translated.
C20_FallbackKeepsSource ==
    (stage = "done" /\ \E i \in DOMAIN math_blocks : TranslationFails(math_blocks[i]))
        => LET x == extract_math(DecodeEntities(html)).text
               span == [i \in DOMAIN math_blocks |->
                           IF TranslationFails(math_blocks[i])
                           THEN SourceSpan(math_blocks[i])
                           ELSE MathSpan(math_blocks[i])]
               at == [i \in DOMAIN math_blocks |-> FindFrom(result, 1, span[i])]
               ph == PlaceholderPos(x, math_blocks)
           IN  /\ \A i \in DOMAIN math_blocks : at[i] # 0
               /\ \A i, j \in DOMAIN math_blocks :
                     (ph[i] # 0 /\ ph[j] # 0 /\ ph[i] < ph[j]) => at[i] < at[j]

(***************************************************************************)
(* Properties of clean_html_with_token                                     *)
(***************************************************************************)
\* the page as the lol_html pass leaves it, and as remove_kortext_content
\* leaves it
AfterRewrite == rewrite_str(Tokenize(page))
AfterKortext == remove_kortext_content(AfterRewrite)

\* the positions of the start tags of the headings of s
HeadingStarts(s) == {i \in DOMAIN s : \E l \in 1..6 : s[i] = HeadingOpen(l)}

\* level and whitespace-trimmed text of the heading that starts at i
LevelAndText(s, i) == <<s[i], Trim(ElementText(s, i))>>

\* s without its heading elements
RECURSIVE WithoutHeadings(_, _)
WithoutHeadings(s, i) ==
    IF i > Len(s) THEN <<>>
    ELSE IF i \in HeadingStarts(s) THEN WithoutHeadings(s, ElementEnd(s, i) + 1)
    ELSE <<s[i]>> \o WithoutHeadings(s, i + 1)

\* what follows the heading that starts at i, headings left out
ContentAfter(s, i) == WithoutHeadings(SubSeq(s, ElementEnd(s, i) + 1, Len(s)), 1)

\* the headings of s with the level and text of the heading at i of d
SameHeading(s, d, i) ==
    {j \in HeadingStarts(s) : LevelAndText(s, j) = LevelAndText(d, i)}

\* C2: of the headings with one level and one non-empty trimmed text that
\* stand in the page two or more times, exactly one is left after the
\* duplicate-heading pass, and what followed the first of them in the page
\* follows the one that is left.
C2_FirstHeadingSurvives ==
    pass = "remove_empty_paragraphs"
        => \A i \in HeadingStarts(AfterKortext) :
              (/\ LevelAndText(AfterKortext, i)[2] # <<>>
               /\ Cardinality(SameHeading(AfterKortext, AfterKortext, i)) >= 2
               /\ i = Min(SameHeading(AfterKortext, AfterKortext, i)))
                  => /\ Cardinality(SameHeading(output, AfterKortext, i)) = 1
                     /\ \A j \in SameHeading(output, AfterKortext, i) :
                           ContentAfter(output, j) = ContentAfter(AfterKortext, i)

\* C3: the string clean_html_with_token returns holds no script start tag,
\* whatever the page and the token.
C3_NoScriptTag ==
    pass = "done" => \A k \in DOMAIN output : output[k] # StartTag("script")

\* the start tags of the container elements of s
ContainerStarts(s) ==
    {i \in DOMAIN s :
        IsStartTag(s[i]) /\ TagOf(s[i]).name \in {"div", "section", "article", "p", "span"}}

\* the start tag of the innermost element around position i, 0 in the body
ParentOf(s, i) ==
    LET around == {p \in 1..(i - 1) : IsStartTag(s[p]) /\ ElementEnd(s, p) > i}
    IN  IF around = {} THEN 0 ELSE CHOOSE p \in around : \A q \in around : q <= p

\* the elements with the parent of the element that starts at i
SiblingsOf(s, i) ==
    {j \in DOMAIN s : IsStartTag(s[j]) /\ j # i /\ ParentOf(s, j) = ParentOf(s, i)}

SourceOf(s, i) == SubSeq(s, i, ElementEnd(s, i))

\* C4: after the phrase pass a container of less than 5000 bytes whose text
\* holds a denylisted phrase, in any letter case, is gone, and each of its
\* siblings whose text holds no phrase is still there as it was.
C4_PhraseContainerOnly ==
    pass = "remove_duplicate_headings"
        => \A i \in ContainerStarts(AfterRewrite) :
              (/\ has_unwanted(ElementText(AfterRewrite, i))
               /\ StrLen(SourceOf(AfterRewrite, i)) < 5000)
                  => /\ ~Contains(output, SourceOf(AfterRewrite, i))
                     /\ \A j \in SiblingsOf(AfterRewrite, i) :
                           ~has_unwanted(ElementText(AfterRewrite, j))
                               => Contains(output, SourceOf(AfterRewrite, j))

\* the src values of the img tags of s, in order
RECURSIVE SrcValues(_, _)
SrcValues(s, i) ==
    IF i > Len(s) THEN <<>>
    ELSE IF s[i] = IMG_OPEN
         THEN <<SubSeq(s, i + 1, ImgEnd(s, i) - 1)>> \o SrcValues(s, ImgEnd(s, i) + 1)
    ELSE SrcValues(s, i + 1)

\* the kinds of URL, read from the URL itself
Schemes == {"http://", "https://", "//"}
IsAbsolute(url) == url # <<>> /\ url[1] \in Schemes
IsCrossOrigin(url) == IsAbsolute(url) /\ url[2] # LMS_HOST
IsSameOrigin(url) == IsAbsolute(url) /\ url[2] = LMS_HOST
IsDataUri(url) == url # <<>> /\ url[1] = "data:"
IsRelative(url) == url # <<>> /\ ~IsAbsolute(url) /\ ~IsDataUri(url)
HasToken(url) == \E k \in DOMAIN url : url[k] = "token="
HasQuery(url) == \E k \in DOMAIN url : url[k] = "?"

\* a call with a token that keeps every img tag of the page
KeepsImages ==
    /\ pass = "done"
    /\ token # <<>>
    /\ Len(SrcValues(output, 1)) = Len(SrcValues(page, 1))

\* C5: with a token, the src of an img on another host (with a scheme or
\* protocol-relative, whatever its path and query hold) and the src of a
\* data: URI are in the output as they were in the page, without the token.
C5_NoTokenCrossOrigin ==
    KeepsImages
        => \A k \in DOMAIN SrcValues(page, 1) :
              LET url == SrcValues(page, 1)[k]
              IN  (IsCrossOrigin(url) \/ IsDataUri(url))
                      => SrcValues(output, 1)[k] = url

\* C6: with a token t, a relative or same-origin src without "token=" gets
\* "&token=" t after a query and "?token=" t otherwise, a src with "token="
\* stays as it was, and rewriting the output again changes nothing.
C6_TokenAppendedOnce ==
    KeepsImages
        => /\ \A k \in DOMAIN SrcValues(page, 1) :
                 LET url == SrcValues(page, 1)[k]
                     out == SrcValues(output, 1)[k]
                 IN  /\ ((IsRelative(url) \/ IsSameOrigin(url)) /\ ~HasToken(url))
                            => out = url \o <<IF HasQuery(url) THEN "&" ELSE "?",
                                              "token=", token[1]>>
                     /\ HasToken(url) => out = url
           /\ fix_image_urls(output, token[1]) = output

\* the page holds no denylisted phrase and no two headings of one level and
\* one text
IsClean(s) ==
    /\ ~has_unwanted(DecodeReferences(TextBetween(s, 1, Len(s))))
    /\ \A i, j \in HeadingStarts(s) : LevelAndText(s, i) = LevelAndText(s, j) => i = j

\* C7: for a page without denylisted phrases and duplicate headings, with
\* character references encoded once or more, cleaning the cleaned page
\* returns the cleaned page.
C7_Idempotent ==
    (pass = "done" /\ IsClean(page))
        => clean_html_with_token(output, token) = output

(***************************************************************************)
(* Properties of the removal stages of clean_html_with_token               *)
(***************************************************************************)
\* the classes whose elements the claim takes to be removed for a phrase only
PhraseTriggeredClasses == {"no-overflow", "box", "generalbox", "prescribed-reading"}

\* no container of s has a denylisted phrase in its text
PhraseFree(s) == \A j \in ContainerStarts(s) : ~has_unwanted(ElementText(s, j))

\* the element that starts at i holds no element of its own
Flat(s, i) == \A k \in (i + 1)..(ElementEnd(s, i) - 1) : ~IsStartTag(s[k])

\* C15: an element with class no-overflow, box, generalbox or
\* prescribed-reading, without a navigation marker, on a page none of whose
\* containers holds a denylisted phrase, is in the string
\* clean_html_with_token returns, with its content.
C15_PhraseFreeBoxRetained ==
    pass = "done"
        => \A i \in DOMAIN Tokenize(page) :
              (/\ IsStartTag(Tokenize(page)[i])
               /\ TagOf(Tokenize(page)[i]).class \in PhraseTriggeredClasses
               /\ TagOf(Tokenize(page)[i]).id \notin RemovedIds
               /\ TagOf(Tokenize(page)[i]).name \notin RemovedTags
               /\ Flat(Tokenize(page), i)
               /\ ParentOf(Tokenize(page), i) = 0
               /\ PhraseFree(Tokenize(page)))
                  => Contains(output, SourceOf(Tokenize(page), i))


\* C16: after the phrase pass a container of less than 5000 bytes is gone
\* when its text holds no denylisted phrase but a value of one of its
\* attributes does.
C16_AttributePhraseRemoved ==
    pass = "remove_duplicate_headings"
        => \A i \in ContainerStarts(AfterRewrite) :
              (/\ ~has_unwanted(ElementText(AfterRewrite, i))
               /\ has_unwanted(TagOf(AfterRewrite[i]).values)
               /\ StrLen(SourceOf(AfterRewrite, i)) < 5000)
                  => ~Contains(output, SourceOf(AfterRewrite, i))

\* the headings of s with the start tag `tag` whose trimmed text is empty
EmptyHeadings(s, tag) ==
    {i \in HeadingStarts(s) : s[i] = tag /\ Trim(ElementText(s, i)) = <<>>}

\* C17: when the page the heading pass receives has two or more empty
\* headings of one level, the pass removes none of them.
C17_EmptyHeadingsKept ==
    pass = "remove_empty_paragraphs"
        => \A l \in 1..6 :
              Cardinality(EmptyHeadings(AfterKortext, HeadingOpen(l))) >= 2
                  => Cardinality(EmptyHeadings(output, HeadingOpen(l)))
                        = Cardinality(EmptyHeadings(AfterKortext, HeadingOpen(l)))

\* the img tags the claim takes to be filtered: an empty src, a data-URI
\* GIF, a src that contains "spacer" or "icon"
Filtered(src) ==
    \/ src = <<>>
    \/ IsDataUri(src) /\ Len(src) >= 2 /\ src[2] = GIF_DATA
    \/ \E k \in DOMAIN src : src[k] \in {"/icon.png", "/spacer.gif"}

\* the src values of s that are not filtered, in order
Unfiltered(srcs) == SelectSeq(srcs, LAMBDA src : ~Filtered(src))

\* the src value was `url`, with or without a token appended
SameImage(src, url) == Len(src) >= Len(url) /\ SubSeq(src, 1, Len(url)) = url

\* C18: the string clean_html_with_token returns holds no img without src
\* and no img whose src is empty, a data-URI GIF or contains "spacer" or
\* "icon", and it holds every other img of the page, in the order of the page.
C18_ImagesFilteredExactly ==
    pass = "done"
        => /\ \A k \in DOMAIN output : output[k] # IMG_NO_SRC
           /\ Len(SrcValues(output, 1)) = Len(Unfiltered(SrcValues(page, 1)))
           /\ \A k \in DOMAIN SrcValues(output, 1) :
                 SameImage(SrcValues(output, 1)[k],
                           Unfiltered(SrcValues(page, 1))[k])

(***************************************************************************)
(* Properties of MemoryCache                                               *)
(***************************************************************************)
\* a call of get or has by thread t returns in this step through the
\* eviction branch
EvictionReturns(t) == ~Idle(t) /\ Idle(t)'

\* C11: a get (or has) that reads an entry whose expiry time has passed does
\* not return its value: it returns None (false for has) through the eviction
\* branch, and when it returns no entry for its key is in the store; a get
\* that reads an entry set with no ttl returns its value at every instant and
\* leaves the store as it was.
C11_ExpiredEvictedNoTtlKept ==
    [][\A t \in Threads :
        /\ \A k \in DOMAIN store, op \in {"get", "has"} :
              GetRead(t, k, op) =>
                  /\ (store[k].expires_at # None /\ now > store[k].expires_at[1])
                        => ~Idle(t)' /\ pending'[t][1].key = k /\ last' = last
                  /\ store[k].expires_at = None
                        => /\ Idle(t)'
                           /\ last'.ret = IF op = "has" THEN TRUE
                                          ELSE Some(store[k].value)
                           /\ store' = store
        /\ EvictionReturns(t) =>
              /\ last'.thread = t
              /\ last'.key = pending[t][1].key
              /\ last'.ret = IF last'.op = "has" THEN FALSE ELSE None
              /\ last'.key \notin DOMAIN store']_vars

\* C11 witness: at the last instant one thread's get has read an expired
\* entry and stands before its eviction, and the other thread's get has just
\* returned the value of an entry set with no ttl
C11_Witness ==
    /\ now = MaxTime
    /\ \E t \in Threads :
          /\ ~Idle(t)
          /\ pending[t][1].key \in DOMAIN store
          /\ store[pending[t][1].key].expires_at # None
          /\ now > store[pending[t][1].key].expires_at[1]
    /\ last.op = "get"
    /\ last.key \in DOMAIN store
    /\ store[last.key].expires_at = None
    /\ last.ret = Some(store[last.key].value)

\* C12: the entry of a key is what the most recent set of that key stored
\* until a delete of the key, a clear or its expiry, so an entry changes or
\* leaves the store only in a set or delete of its key, in a clear, or when it
\* has expired; get returns the value of the live entry, has agrees with get,
\* and delete returns true exactly when the key was present.
C12_GetReturnsLatestSet ==
    [][/\ \A k \in DOMAIN store :
            (k \notin DOMAIN store' \/ store'[k] # store[k]) =>
                \/ last'.op \in {"set", "delete"} /\ last'.key = k
                \/ last'.op = "clear"
                \/ Expired(store[k], now)
       /\ \A t \in Threads, k \in Keys :
            /\ GetRead(t, k, "get") /\ Idle(t)' =>
                last'.ret = IF k \in DOMAIN store /\ ~Expired(store[k], now)
                            THEN Some(store[k].value) ELSE None
            /\ GetRead(t, k, "has") /\ Idle(t)' =>
                last'.ret = (k \in DOMAIN store /\ ~Expired(store[k], now))
            /\ Delete(t, k) => last'.ret = (k \in DOMAIN store)]_vars

(***************************************************************************)
(* Properties of batch_prefetch                                            *)
(***************************************************************************)
\* the units of work that hold a permit and have not returned their item
InFlight == {i \in DOMAIN units : units[i] = "fetch"}

\* C13: at every moment of a batch at most 10 units are between acquiring
\* their permit and the end of their cache-check / fetch / clean /
\* cache-write sequence, each of them holding one of the 10 permits, however
\* many URLs were requested; and a permit returns to the semaphore only in
\* the step in which the unit that held it finishes.
C13_AtMostTenInFlight ==
    /\ [](/\ Cardinality(InFlight) <= 10
          /\ permits = 10 - Cardinality(InFlight))
    /\ [][permits' > permits =>
             /\ permits' = permits + 1
             /\ \E i \in InFlight :
                   /\ units'[i] = "done"
                   /\ \A j \in DOMAIN units \ {i} : units'[j] = units[j]]_vars

\* C13 witness: of more than 10 requested URLs, 10 units are in flight with
\* no permit left, the last of them admitted after another unit had finished
C13_Witness ==
    /\ Len(urls) > 10
    /\ Cardinality(InFlight) = 10
    /\ permits = 0
    /\ \E i \in DOMAIN units : units[i] = "done"

\* C14: the response of a batch holds exactly one item per requested URL,
\* the i-th item carrying the i-th URL, in whatever order the units
\* finished; its total is the number of URLs and its loaded the number of
\* successful items; a unit's item, once returned, never changes, and the
\* step in which one unit fails touches no other unit, no other item and not
\* the cache.
C14_OneItemPerUrl ==
    /\ [](response # None =>
            /\ Len(response[1].items) = Len(urls)
            /\ \A i \in DOMAIN urls : response[1].items[i].url = urls[i]
            /\ response[1].total = Len(urls)
            /\ response[1].loaded =
                  Cardinality({i \in DOMAIN urls : response[1].items[i].success}))
    /\ [][/\ DOMAIN units' = DOMAIN urls /\ DOMAIN items' = DOMAIN urls
          /\ \A j \in DOMAIN items :
                items[j] # None => items'[j] = items[j] /\ units'[j] = "done"
          /\ \A i \in DOMAIN urls :
                (items[i] = None /\ items'[i] # None /\ ~items'[i][1].success) =>
                    /\ items'[i][1].url = urls[i]
                    /\ store' = store \/ extract_module_id(urls[i]) = None
                    /\ \A j \in DOMAIN urls \ {i} :
                          units'[j] = units[j] /\ items'[j] = items[j]]_vars

\* C14 witness: a batch of more than 10 URLs has returned its response, in
\* which an earlier unit failed and later units succeeded
C14_Witness ==
    /\ response # None
    /\ Len(urls) > 10
    /\ 0 < response[1].loaded /\ response[1].loaded < response[1].total
    /\ ~response[1].items[1].success
    /\ response[1].items[Len(urls)].success


(***************************************************************************)
(* Properties of generate_typst_document                                   *)
(***************************************************************************)

\* a section name with each of the ten metacharacters of the escaping stage
\* behind a backslash
EscapedName(name) == Concat([i \in DOMAIN name |->
                               IF name[i] \in MetaChars THEN <<"\\", name[i]>>
                               ELSE <<name[i]>>])

\* C21: the returned document is the template followed by the sections in
\* input order, each a level-1 heading line with the section name followed
\* by the section body, and the section name stands in its heading line with
\* every metacharacter of the escaping stage (\ # $ * _ @ [ ] < >) escaped.
C21_SectionsInOrderNamesEscaped ==
    DocumentReturned
        => doc = <<TEMPLATE_HEAD>> \o safe_title(title) \o <<TEMPLATE_TITLE_PAGE>>
                     \o safe_title(title) \o <<TEMPLATE_TAIL>>
                     \o Concat([k \in DOMAIN sections |->
                                   <<"\n", "\n", "=", " ">>
                                       \o EscapedName(sections[k].section_name)
                                       \o <<"\n", "\n">>
                                       \o sections[k].content])


(***************************************************************************)
(* Properties of clean_html_with_token as a whole                          *)
(***************************************************************************)

\* the statements of clean_html_with_token in program order, its return last
PassOrder ==
    <<"rewrite", "remove_kortext_content", "remove_duplicate_headings",
      "remove_empty_paragraphs", "fix_image_urls", "fix_entity_encoding", "done">>

PassRank(p) == CHOOSE i \in DOMAIN PassOrder : PassOrder[i] = p

\* C22: sanitize is total.  For every page, with or without a token, the
\* call is at one of its statements or at its return and never at an error
\* exit, every step takes it to a later statement, so that it reaches the
\* return after at most six steps, what it returns is a string, and for the
\* empty page the returned string is empty.
C22_SanitizeTotal ==
    /\ [](\E i \in DOMAIN PassOrder : PassOrder[i] = pass)
    /\ [](pass = "done" => output \in Seq(STRING))
    /\ [](pass = "done" /\ page = <<>> => output = <<>>)
    /\ [][PassRank(pass') > PassRank(pass)]_vars

\* the call returned although the element-removal stage failed, with a token
C22_Witness ==
    /\ pass = "done"
    /\ token # None
    /\ RewriteFails(Tokenize(page))


(***************************************************************************)
(* Properties of the heading placeholders                                  *)
(***************************************************************************)

\* the heading placeholders of a text in order, each from its start marker
\* to the first end marker behind it, or to the end of the text if there is
\* no end marker left
RECURSIVE HeadingSpansFrom(_, _)
HeadingSpansFrom(s, i) ==
    IF i > Len(s) THEN <<>>
    ELSE IF s[i] # HEADING_START THEN HeadingSpansFrom(s, i + 1)
    ELSE LET e == FindFrom(s, i, <<HEADING_END>>)
         IN  IF e = 0 THEN <<SubSeq(s, i, Len(s))>>
             ELSE <<SubSeq(s, i, e)>> \o HeadingSpansFrom(s, e + 1)

HeadingSpans(s) == HeadingSpansFrom(s, 1)

\* C23: between heading extraction and heading restoration no stage (list
\* conversion, tag stripping, escaping) deletes or alters a heading
\* placeholder: the placeholders of the text, with their start markers,
\* payloads and end markers, are the same after the stage as before it.
C23_HeadingPlaceholdersProtected ==
    [][(stage \in {"convert_lists", "strip_html_tags", "escape"})
           => (HeadingSpans(result') = HeadingSpans(result))]_vars


(***************************************************************************)
(* Properties of MemoryCache under concurrent use                          *)
(***************************************************************************)

\* C24: the eviction done by get on an expired entry never removes an entry
\* that has not expired: the entry that the evicting step of a get (or has)
\* takes out of the store, if the key has one, has an expiry time and that
\* time has passed, so an entry another thread set after the expiry check
\* stays in the store for later gets.
C24_EvictionRemovesOnlyExpired ==
    [][\A t \in Threads :
          GetEvict(t) =>
              LET k == pending[t][1].key
              IN  (k \in DOMAIN store /\ k \notin DOMAIN store')
                      => /\ store[k].expires_at # None
                         /\ now > store[k].expires_at[1]]_vars


(***************************************************************************)
(* Properties of the content routes                                        *)
(***************************************************************************)

\* the auth tokens that the image URLs of a content carry
TokensIn(content) ==
    {content[k + 1] : k \in {j \in 1..(Len(content) - 1) : content[j] = "token="}}

\* C25: content served to a requester never contains an auth token supplied
\* by a different requester: the image URLs in the content of a response of
\* get_activity_content carry no token but that of the request, and those in
\* the items of batch_prefetch no token but that of the batch request.
C25_NoForeignToken ==
    /\ \A i \in DOMAIN requests :
          (requests[i].response # None /\ requests[i].response[1].content # None)
              => TokensIn(requests[i].response[1].content[1]) \subseteq {requests[i].token}
    /\ \A i \in DOMAIN items :
          (items[i] # None /\ items[i][1].content # None)
              => TokensIn(items[i][1].content[1]) \subseteq {token[1]}

\* request i of get_activity_content gets a failure response in this step
ActivityFails(i) ==
    /\ i \in DOMAIN requests'
    /\ i \in DOMAIN requests => Fetching(i)
    /\ requests'[i].response # None
    /\ ~requests'[i].response[1].success

\* unit i of the batch ends with a failure item in this step
UnitFails(i) ==
    /\ items[i] = None
    /\ items'[i] # None
    /\ ~items'[i][1].success

\* C28: a cache entry for a URL is created only by a successful
\* fetch-and-clean of that URL.  A step in which a request of
\* get_activity_content or a unit of batch_prefetch fails (invalid URL,
\* upstream error, no content downloaded) leaves the cache unchanged; an
\* entry appears or changes only in a step in which a fetch of a URL with
\* that key succeeds, and holds the content that step returns; and a request
\* for a URL that has no entry gets no cached content: it fails or fetches.
C28_OnlySuccessfulFetchCaches ==
    [][/\ (\/ \E i \in DOMAIN requests' : ActivityFails(i)
           \/ \E i \in DOMAIN items : UnitFails(i))
          => store' = store
       /\ \A k \in DOMAIN store' :
            (k \notin DOMAIN store \/ store'[k] # store[k])
              => \/ \E i \in DOMAIN requests :
                      /\ Fetching(i)
                      /\ cache_key(requests[i].url) = k
                      /\ requests'[i].response # None
                      /\ requests'[i].response[1].success
                      /\ requests'[i].response[1].content = Some(store'[k].value)
                 \/ \E i \in DOMAIN items :
                      /\ units[i] = "fetch"
                      /\ cache_key(urls[i]) = k
                      /\ items'[i] # None
                      /\ items'[i][1].success
                      /\ items'[i][1].content = Some(store'[k].value)
       /\ Len(requests') > Len(requests)
          => LET r == requests'[Len(requests')]
             IN  cache_key(r.url) \notin DOMAIN store
                     => \/ r.response = None
                        \/ ~r.response[1].success]_vars

\* C28 witness: a request for a URL failed in its fetch, the cache has no
\* entry, and the next request for the same URL fetched again
C28_Witness ==
    /\ Len(requests) = 2
    /\ requests[1].url = requests[2].url
    /\ requests[1].response # None
    /\ requests[1].response[1].error \in {Some(e) : e \in FetchErrors}
    /\ requests[2].response = None
    /\ store = new


(***************************************************************************)
(* Properties of the escaping stage                                        *)
(***************************************************************************)

\* the escaping scan that, having copied a placeholder span, resumes at the
\* character immediately after the span
RECURSIVE ResumingScan(_)
ResumingScan(s) ==
    IF s = <<>> THEN <<>>
    ELSE LET e == SpanEnd(s)
         IN  IF e # 0
             THEN SubSeq(s, 1, e) \o ResumingScan(SubSeq(s, e + 1, Len(s)))
             ELSE EscapeChar(Head(s)) \o ResumingScan(Tail(s))

\* C26: the escaping stage loses no text: a math or heading placeholder
\* span is copied verbatim and the scan resumes at the character immediately
\* after it, so every character that follows a placeholder is emitted,
\* escaped if it is a metacharacter, also when the payload holds characters
\* of more than one byte.
C26_EscapingLosesNoText ==
    [][(stage = "escape") => (result' = ResumingScan(result))]_vars


(***************************************************************************)
(* Properties of the failure of the element-removal stage                  *)
(***************************************************************************)

\* the stages after the element removal, applied in their order
LaterStages(s, t) ==
    LET k == remove_kortext_content(s)
        d == remove_duplicate_headings_scraper(k)
        e == remove_empty_paragraphs_fast(d)
        f == IF t # None THEN fix_image_urls(e, t[1]) ELSE e
    IN  Tokenize(FixEntityEncoding(f))

\* C27: a stage that cannot process its input is skipped alone: when the
\* streaming element-removal stage fails, the returned string is what the
\* later stages (phrase removal, heading de-duplication, empty-paragraph
\* removal, token rewriting, entity normalization) make of the unmodified
\* input.
C27_FailedStageSkippedAlone ==
    (pass = "done" /\ page # <<>> /\ RewriteFails(Tokenize(page)))
        => output = LaterStages(Tokenize(page), token)


(***************************************************************************)
(* Properties of the size guard                                            *)
(***************************************************************************)

\* the element that starts at i is removed for what it is, whatever its
\* text: a script, style, iframe or nav element or one with a navigation
\* marker
RemovedForMarker(s, i) ==
    \/ TagOf(s[i]).name \in RemovedTags
    \/ TagOf(s[i]).class \in RemovedClasses \ PhraseTriggeredClasses
    \/ TagOf(s[i]).id \in RemovedIds

\* C29: a container whose serialized size is at or above 5000 bytes is not
\* removed for a denylisted phrase in it: when such a container, in the body
\* of the page and without a navigation marker, holds a phrase, its element
\* is in the returned string; only smaller descendants may be gone.
C29_LargeContainerKept ==
    (pass = "done" /\ ~RewriteFails(Tokenize(page)))
        => \A i \in ContainerStarts(Tokenize(page)) :
              (/\ StrLen(ElementHtml(Tokenize(page), i)) >= 5000
               /\ has_unwanted(ElementText(Tokenize(page), i))
               /\ ~RemovedForMarker(Tokenize(page), i)
               /\ ParentOf(Tokenize(page), i) = 0)
                  => \E k \in DOMAIN output : output[k] = Tokenize(page)[i]


(***************************************************************************)
(* Properties of the locking of MemoryCache                                *)
(***************************************************************************)

\* thread t waits for the write lock
AwaitsWrite(t) == point[t].at \in {"write_wait", "evict_wait"}

==============================================================================
